---- MODULE Spec2Model ----
(***************************************************************************)
(* A model of the request-authentication and response-codec subsystem of   *)
(* gd.js: the delimited record parser, the decompressor's format           *)
(* detection and promise flow, the Base64 codecs, the cipher and the       *)
(* request checksum, the request parameter builder and the login /         *)
(* logged-in-user request flow.                                            *)
(*                                                                         *)
(* JavaScript strings are sequences of character codes.  JavaScript values *)
(* that may be a number, a string, NaN or undefined are records            *)
(* [t, n, s] of one shape, so that any two values can be compared.         *)
(***************************************************************************)
EXTENDS Integers, Sequences, FiniteSets, TLC

VARIABLES pPc, pIn, pOut,        \* parser call: position, input, result
          fPc, fImpl, fDat, fRoute, \* format detection: position, variant, leading bytes, route
          dImpl, dIsNode, dHasWorker, \* decompress: module variant, isNode, typeof Worker !== 'undefined'
          dCall, dWorkers,            \* decompress: the calls, the workers created
          aPc,                        \* login flow: anonymous, awaiting, authenticated, failed
          aUdid,                      \* the device identifier of this process
          aUserCreds,                 \* the {username, password} handed to login
          aLoginResp, aInfoResp,      \* the answers received by login and authorize
          aCreds,                     \* the credentials login hands to authorize
          aUser,                      \* the LoggedInUser
          aLog,                       \* the requests login and authorize sent, in order
          aSent,                      \* the requests the last operation of the user sent
          aErr,                       \* the error login threw
          aRet,                       \* the value the last operation returned
          aOps,                       \* number of operations called on the user
          aArg,                       \* the entity handed to the last delete, friend-request or level operation
          cPc,                        \* codec call: position
          cIsNode,                    \* isNode of util/isNode
          cStr, cKey,                 \* the string and the key handed to the codec
          cFields, cSalt,             \* the fields and the salt of a checksum
          cMid, cOut,                 \* the intermediate and the final result
          cErr,                       \* the error the codec threw
          gPc,                        \* GDRequestParams: position
          gArg,                       \* the argument of the last call
          gBefore,                    \* this.data before the last call
          gData,                      \* this.data
          gRet,                       \* the value the last call returned
          gOps,                       \* number of calls made on the object
          lPc,                        \* paged listing: idle, awaiting, done
          lFn,                        \* the listing function called
          lArg,                       \* its arguments: num and the query
          lPage,                      \* the loop counter page / i
          lParams,                    \* the GDRequestParams of the request awaited
          lSent,                      \* the requests the listing sent, in order
          lData,                      \* the answers it received, in order
          lAcc,                       \* the entries collected so far
          lRet,                       \* the value the listing returned
          eFr,                        \* an IncomingFriendRequest entity
          eLevel                      \* a SearchedLevel / LoggedInSearchedLevel entity

parseVars == <<pPc, pIn, pOut>>
flateVars == <<fPc, fImpl, fDat, fRoute>>

dcVars == <<dImpl, dIsNode, dHasWorker, dCall, dWorkers>>

authVars == <<aPc, aUdid, aUserCreds, aLoginResp, aInfoResp, aCreds, aUser, aLog,
              aSent, aErr, aRet, aOps, aArg>>

codecVars == <<cPc, cIsNode, cStr, cKey, cFields, cSalt, cMid, cOut, cErr>>

paramVars == <<gPc, gArg, gBefore, gData, gRet, gOps>>

listVars == <<lPc, lFn, lArg, lPage, lParams, lSent, lData, lAcc, lRet>>

entVars == <<eFr, eLevel>>

vars == <<pPc, pIn, pOut, fPc, fImpl, fDat, fRoute,
          dImpl, dIsNode, dHasWorker, dCall, dWorkers,
          aPc, aUdid, aUserCreds, aLoginResp, aInfoResp, aCreds, aUser, aLog,
          aSent, aErr, aRet, aOps, aArg,
          cPc, cIsNode, cStr, cKey, cFields, cSalt, cMid, cOut, cErr,
          gPc, gArg, gBefore, gData, gRet, gOps,
          lPc, lFn, lArg, lPage, lParams, lSent, lData, lAcc, lRet,
          eFr, eLevel>>

----------------------------------------------------------------------------
(* Bounds *)

\* longest input string handed to parse / parseObject
MaxParseLen == 5

\* number of decompress calls in flight
MaxCalls == 2

\* longest password
MaxPwLen == 2

\* number of operations called on the logged-in user
MaxOps == 2

\* longest string handed to the codecs and the cipher
MaxStrLen == 3

\* longest cipher key
MaxKeyLen == 2

\* longest field of a checksum
MaxFieldLen == 2

\* most entries of a field map handed to GDRequestParams
MaxMapLen == 2

\* number of calls made on a GDRequestParams object
MaxParamOps == 2

\* the largest num handed to a paged listing
MaxNum == 21

\* the largest number of entries of a leaderboard
MaxBoard == 4

----------------------------------------------------------------------------
(* Character codes used by the source *)

COLON == 58
COMMA == 44
MINUS == 45
DIGIT0 == 48
DIGIT9 == 57

\* character codes of the inputs of the parsers: 'a', '0', '5', ':', ','
ParseAlphabet == {97, 48, 53, COLON, COMMA}

----------------------------------------------------------------------------
(* JavaScript values *)

Undefined == [t |-> "undefined", n |-> 0, s |-> <<>>]
NaN == [t |-> "NaN", n |-> 0, s |-> <<>>]
Num(n) == [t |-> "number", n |-> n, s |-> <<>>]
Str(s) == [t |-> "string", n |-> 0, s |-> s]

\* every string over alphabet A of length at most n
StringsUpTo(A, n) == UNION {[1..k -> A] : k \in 0..n}

\* arr[i] for a 0-based JavaScript index: undefined past the end
At(arr, i) == IF i < Len(arr) THEN Str(arr[i + 1]) ELSE Undefined

\* String.prototype.split for a one-character separator
RECURSIVE SplitFrom(_, _, _, _)
SplitFrom(data, sep, i, cur) ==
  IF i > Len(data) THEN <<cur>>
  ELSE IF data[i] = sep THEN <<cur>> \o SplitFrom(data, sep, i + 1, <<>>)
  ELSE SplitFrom(data, sep, i + 1, Append(cur, data[i]))

Split(data, sep) == SplitFrom(data, sep, 1, <<>>)

IsDigits(s) == \A i \in 1..Len(s) : s[i] >= DIGIT0 /\ s[i] <= DIGIT9

RECURSIVE DecimalValue(_)
DecimalValue(s) ==
  IF s = <<>> THEN 0
  ELSE 10 * DecimalValue(SubSeq(s, 1, Len(s) - 1)) + (s[Len(s)] - DIGIT0)

\* unary plus: ToNumber of a value.  Strings of this model hold digits,
\* letters, '-', ':' and ',' only (no whitespace, '.', exponent or radix
\* prefix), so a string is numeric exactly when it is empty (0) or an
\* optional '-' followed by decimal digits.
ToNumber(v) ==
  IF v.t = "number" THEN v
  ELSE IF v.t # "string" THEN NaN
  ELSE IF IsDigits(v.s) THEN Num(DecimalValue(v.s))
  ELSE IF Len(v.s) > 1 /\ v.s[1] = MINUS /\ IsDigits(Tail(v.s))
       THEN Num(0 - DecimalValue(Tail(v.s)))
  ELSE NaN

\* ToBoolean of a value
Truthy(v) ==
  CASE v.t = "number" -> v.n # 0
    [] v.t = "string" -> v.s # <<>>
    [] OTHER -> FALSE

\* obj[k] = v on an object held as a function from keys to values
SetKey(obj, k, v) == [x \in DOMAIN obj \cup {k} |-> IF x = k THEN v ELSE obj[x]]

EmptyObj == [x \in {} |-> Undefined]

----------------------------------------------------------------------------
(* util/parse: parse and parseObject *)

\* for (let i = 0; i < split.length; i += 2) obj[split[i]] = split[i + 1];
RECURSIVE parseLoop(_, _, _)
parseLoop(split, i, obj) ==
  IF i < Len(split)
  THEN parseLoop(split, i + 2, SetKey(obj, split[i + 1], At(split, i + 1)))
  ELSE obj

parse(data, splitter) == parseLoop(Split(data, splitter), 0, EmptyObj)

\* obj[split[i]] = +split[i + 1] || split[i + 1];
coerceOrKeep(v) == IF Truthy(ToNumber(v)) THEN ToNumber(v) ELSE v

RECURSIVE parseObjectLoop(_, _, _)
parseObjectLoop(split, i, obj) ==
  IF i < Len(split)
  THEN parseObjectLoop(split, i + 2,
                       SetKey(obj, split[i + 1], coerceOrKeep(At(split, i + 1))))
  ELSE obj

parseObject(data) == parseObjectLoop(Split(data, COMMA), 0, EmptyObj)

\* obj[split[i]] = +split[i + 1];   (the earlier parseObject)
RECURSIVE parseObjectLoopV1(_, _, _)
parseObjectLoopV1(split, i, obj) ==
  IF i < Len(split)
  THEN parseObjectLoopV1(split, i + 2,
                         SetKey(obj, split[i + 1], ToNumber(At(split, i + 1))))
  ELSE obj

parseObjectV1(data) == parseObjectLoopV1(Split(data, COMMA), 0, EmptyObj)

ParseIdle ==
  /\ pPc = "idle"
  /\ pIn = <<>>
  /\ pOut = EmptyObj

FlateIdle ==
  /\ fPc = "idle"
  /\ fImpl = "none"
  /\ fDat = <<>>
  /\ fRoute = "none"

DcIdle ==
  /\ dImpl = "none"
  /\ dIsNode = FALSE
  /\ dHasWorker = FALSE
  /\ dCall = <<>>
  /\ dWorkers = <<>>

ParseInit ==
  /\ pPc = "ready"
  /\ pIn \in StringsUpTo(ParseAlphabet, MaxParseLen)
  /\ pOut = EmptyObj

CallParse ==
  /\ pPc = "ready"
  /\ pPc' = "parse"
  /\ pOut' = parse(pIn, COLON)
  /\ UNCHANGED <<pIn, flateVars, listVars, entVars, codecVars, paramVars, dcVars, authVars>>

CallParseObject ==
  /\ pPc = "ready"
  /\ pPc' = "parseObject"
  /\ pOut' = parseObject(pIn)
  /\ UNCHANGED <<pIn, flateVars, listVars, entVars, codecVars, paramVars, dcVars, authVars>>

CallParseObjectV1 ==
  /\ pPc = "ready"
  /\ pPc' = "parseObjectV1"
  /\ pOut' = parseObjectV1(pIn)
  /\ UNCHANGED <<pIn, flateVars, listVars, entVars, codecVars, paramVars, dcVars, authVars>>

ParseNext == CallParse \/ CallParseObject \/ CallParseObjectV1

----------------------------------------------------------------------------
(* util flate: decompress chooses gunzip, inflateRaw or inflate from the   *)
(* leading bytes of the buffer                                             *)

Bytes == 0..255

\* the third byte is only ever compared with 8
ThirdBytes == {0, 8, 9, 255}

\* the leading bytes of a buffer: every buffer of at most two bytes, and
\* every pair of first bytes followed by a third byte
Headers(B) ==
  StringsUpTo(B, 2) \cup {<<a, b, c>> : a \in B, b \in B, c \in ThirdBytes}

\* dat[i] of a Uint8Array used as an integer operand (undefined becomes 0)
ByteAt(dat, i) == IF i < Len(dat) THEN dat[i + 1] ELSE 0

\* dat[i] == b (undefined equals no number)
ByteIs(dat, i, b) == i < Len(dat) /\ dat[i + 1] = b

RECURSIVE BitAnd(_, _)
BitAnd(a, b) ==
  IF a = 0 \/ b = 0 THEN 0
  ELSE (IF a % 2 = 1 /\ b % 2 = 1 THEN 1 ELSE 0) + 2 * BitAnd(a \div 2, b \div 2)

RECURSIVE BitOr(_, _)
BitOr(a, b) ==
  IF a = 0 THEN b
  ELSE IF b = 0 THEN a
  ELSE (IF a % 2 = 1 \/ b % 2 = 1 THEN 1 ELSE 0) + 2 * BitOr(a \div 2, b \div 2)

RECURSIVE Pow2(_)
Pow2(n) == IF n = 0 THEN 1 ELSE 2 * Pow2(n - 1)

ShiftLeft(a, n) == a * Pow2(n)
ShiftRight(a, n) == a \div Pow2(n)

\* (dat[0] & 15) != 8 || dat[0] >> 4 > 7 || ((dat[0] << 8) | dat[1]) % 31
notZlibHeader(dat) ==
  \/ BitAnd(ByteAt(dat, 0), 15) # 8
  \/ ShiftRight(ByteAt(dat, 0), 4) > 7
  \/ BitOr(ShiftLeft(ByteAt(dat, 0), 8), ByteAt(dat, 1)) % 31 # 0

\* flate/node: if (dat[0] == 31 && dat[1] == 139 && dat[2] == 8) gunzip
routeNode(dat) ==
  IF ByteIs(dat, 0, 31) /\ ByteIs(dat, 1, 139) /\ ByteIs(dat, 2, 8) THEN "gunzip"
  ELSE IF notZlibHeader(dat) THEN "inflateRaw"
  ELSE "inflate"

\* util/node-flate.ts: if (dat[0] == 31 && dat[1] == 139) gunzip
routeNodeFlate(dat) ==
  IF ByteIs(dat, 0, 31) /\ ByteIs(dat, 1, 139) THEN "gunzip"
  ELSE IF notZlibHeader(dat) THEN "inflateRaw"
  ELSE "inflate"

FlateInit ==
  /\ fPc = "ready"
  /\ fImpl = "none"
  /\ fDat \in Headers(Bytes)
  /\ fRoute = "none"

DecompressNode ==
  /\ fPc = "ready"
  /\ fPc' = "routed"
  /\ fImpl' = "flate/node"
  /\ fRoute' = routeNode(fDat)
  /\ UNCHANGED <<fDat, parseVars, listVars, entVars, codecVars, paramVars, dcVars, authVars>>

DecompressNodeFlate ==
  /\ fPc = "ready"
  /\ fPc' = "routed"
  /\ fImpl' = "node-flate"
  /\ fRoute' = routeNodeFlate(fDat)
  /\ UNCHANGED <<fDat, parseVars, listVars, entVars, codecVars, paramVars, dcVars, authVars>>

FlateNext == DecompressNode \/ DecompressNodeFlate

\* the buffer starts with the gzip magic 0x1F 0x8B 0x08
GzipMagic(dat) == Len(dat) >= 3 /\ dat[1] = 31 /\ dat[2] = 139 /\ dat[3] = 8

\* C7: decompress routes a buffer to gzip decompression if and only if its
\* first three bytes are 0x1F 0x8B 0x08.
C7_GunzipIffGzipMagic ==
  fPc = "routed" => (fRoute = "gunzip" <=> GzipMagic(fDat))

\* the raw-deflate condition as the specification writes it
RawCondition(b0, b1) ==
  (b0 % 16 # 8) \/ (b0 \div 16 > 7) \/ ((b0 * 256 + b1) % 31 # 0)

\* C8: a buffer without the gzip magic goes to raw inflate exactly when
\* (byte0 & 0x0F) != 8 or (byte0 >> 4) > 7 or ((byte0<<8 | byte1) mod 31) != 0
\* and to zlib inflate otherwise; every buffer takes exactly one route.
C8_RawOrZlibByHeaderCheck ==
  fPc = "routed" =>
    /\ fRoute \in {"gunzip", "inflateRaw", "inflate"}
    /\ ~GzipMagic(fDat) =>
         IF RawCondition(ByteAt(fDat, 0), ByteAt(fDat, 1))
         THEN fRoute = "inflateRaw"
         ELSE fRoute = "inflate"

----------------------------------------------------------------------------
(* util/compress, util/decompress: the asynchronous decompress call        *)

Calls == 1..MaxCalls

\* leading bytes of the compressed inputs of the calls
DcInputs == {<<31, 139, 8>>, <<120, 156>>, <<1>>}

\* decompressed byte sequences the inflate primitive may hand back
Plain == {<<>>, <<104>>, <<104, 105>>}

\* errors the inflate primitive reports for a corrupt stream
StreamErrors == {"Z_DATA_ERROR", "Z_BUF_ERROR"}

\* errors of a worker: its script cannot be loaded, or inflate threw in it
WorkerErrors == {"WorkerLoadError"} \cup StreamErrors

NewCall(in) ==
  [pc |-> "ready", in |-> in, route |-> "none", err |-> "none", out |-> <<>>,
   sync |-> FALSE, dispatchFail |-> FALSE, streamErr |-> "none"]

\* for (const byte of resultBytes) out += String.fromCharCode(byte);
bytesToString(bytes) == [i \in 1..Len(bytes) |-> bytes[i] % 65536]

\* the async function returns out: its promise resolves
resolveCall(call, bytes) == [call EXCEPT !.pc = "resolved", !.out = bytesToString(bytes)]

\* an awaited promise rejects or a call throws: the async function rejects
rejectCall(call, err) == [call EXCEPT !.pc = "rejected", !.err = err]

\* a callback that hands the data on whatever the error
cbIgnoresError(call, err, dat) == resolveCall(call, dat)

\* const cb = (err, dat) => (err ? rej(err) : res(dat));  then the await
cb(call, err, dat) ==
  IF err # "none" THEN rejectCall(call, err) ELSE resolveCall(call, dat)

DcInit ==
  /\ dImpl \in {"compress", "compressWorker", "decompressTs"}
  /\ dIsNode \in BOOLEAN
  /\ dHasWorker \in BOOLEAN
  /\ dCall \in {[c \in Calls |-> NewCall(f[c])] : f \in [Calls -> DcInputs]}
  /\ dWorkers = <<>>

\* util/compress.ts: await dcmp(rawBytes), dcmp from util/node-flate.ts
DecompressZlib(c) ==
  /\ dImpl = "compress"
  /\ dCall[c].pc = "ready"
  /\ dCall' = [dCall EXCEPT ![c].pc = "zlib",
                            ![c].route = IF dIsNode THEN routeNodeFlate(dCall[c].in)
                                         ELSE "fflate"]
  /\ UNCHANGED <<dImpl, dIsNode, dHasWorker, dWorkers,
                 parseVars, codecVars, paramVars, flateVars, listVars, entVars, authVars>>

\* gunzip / inflateRaw / inflate / fflate call back with an error or the data
ZlibCallback(c) ==
  /\ dCall[c].pc = "zlib"
  /\ \E err \in {"none"} \cup StreamErrors, dat \in Plain :
       dCall' = [dCall EXCEPT ![c] = cb([@ EXCEPT !.streamErr = err], err, dat)]
  /\ UNCHANGED <<dImpl, dIsNode, dHasWorker, dWorkers,
                 parseVars, codecVars, paramVars, flateVars, listVars, entVars, authVars>>

\* util/decompress.ts in the browser: gdDecodeBase64(this.data) reads a
\* property of the module's `this`, which holds no data: the call throws
DecompressThisData(c) ==
  /\ dImpl = "decompressTs"
  /\ ~dIsNode
  /\ dCall[c].pc = "ready"
  /\ dCall' = [dCall EXCEPT ![c] = rejectCall(@, "TypeError")]
  /\ UNCHANGED <<dImpl, dIsNode, dHasWorker, dWorkers,
                 parseVars, codecVars, paramVars, flateVars, listVars, entVars, authVars>>

\* the call takes the worker branch: typeof Worker !== 'undefined'
UsesWorker(c) ==
  /\ dCall[c].pc = "ready"
  /\ dHasWorker
  /\ \/ dImpl = "compressWorker"
     \/ dImpl = "decompressTs" /\ dIsNode

\* the call takes the in-process branch
UsesSync(c) ==
  /\ dCall[c].pc = "ready"
  /\ ~dHasWorker
  /\ \/ dImpl = "compressWorker"
     \/ dImpl = "decompressTs" /\ dIsNode

\* a call that posts its input to a worker an earlier call created
DecompressStartWorkerShared(c) ==
  /\ UsesWorker(c)
  /\ dWorkers' = IF dWorkers = <<>>
                 THEN <<[owner |-> c, data |-> dCall[c].in, st |-> "running"]>>
                 ELSE dWorkers
  /\ dCall' = [dCall EXCEPT ![c].pc = "worker"]
  /\ UNCHANGED <<dImpl, dIsNode, dHasWorker, parseVars, codecVars, paramVars, flateVars, listVars, entVars, authVars>>

\* new NodeWorker(..., {workerData: rawBytes}) / new Worker(...) and
\* postMessage(rawBytes): one worker for this call, its handlers registered
DecompressStartWorker(c) ==
  /\ UsesWorker(c)
  /\ dWorkers' = Append(dWorkers, [owner |-> c, data |-> dCall[c].in, st |-> "running"])
  /\ dCall' = [dCall EXCEPT ![c].pc = "worker"]
  /\ UNCHANGED <<dImpl, dIsNode, dHasWorker, parseVars, codecVars, paramVars, flateVars, listVars, entVars, authVars>>

\* the Worker constructor throws inside the promise executor: the promise
\* rejects and the await throws
DecompressWorkerCtorThrows(c) ==
  /\ UsesWorker(c)
  /\ dCall' = [dCall EXCEPT ![c] = rejectCall([@ EXCEPT !.dispatchFail = TRUE],
                                               "WorkerCtorError")]
  /\ UNCHANGED <<dImpl, dIsNode, dHasWorker, dWorkers,
                 parseVars, codecVars, paramVars, flateVars, listVars, entVars, authVars>>

\* resultBytes = inflate(rawBytes): returns the data or throws
DecompressSync(c) ==
  /\ UsesSync(c)
  /\ \E err \in {"none"} \cup StreamErrors, dat \in Plain :
       dCall' = [dCall EXCEPT ![c] =
                   IF err # "none"
                   THEN rejectCall([@ EXCEPT !.sync = TRUE, !.streamErr = err], err)
                   ELSE resolveCall([@ EXCEPT !.sync = TRUE], dat)]
  /\ UNCHANGED <<dImpl, dIsNode, dHasWorker, dWorkers,
                 parseVars, codecVars, paramVars, flateVars, listVars, entVars, authVars>>

\* worker.on('message', res) / addEventListener('message', ev => res(ev.data))
WorkerMessage(w) ==
  /\ dWorkers[w].st = "running"
  /\ dWorkers' = [dWorkers EXCEPT ![w].st = "posted"]
  /\ \E dat \in Plain :
       LET c == dWorkers[w].owner IN
       dCall' = [dCall EXCEPT ![c] = IF @.pc = "worker" THEN resolveCall(@, dat) ELSE @]
  /\ UNCHANGED <<dImpl, dIsNode, dHasWorker, parseVars, codecVars, paramVars, flateVars, listVars, entVars, authVars>>

\* worker.on('error', rej) / addEventListener('error', ev => rej(ev.error))
WorkerError(w) ==
  /\ dWorkers[w].st \in {"running", "posted"}
  /\ dWorkers' = [dWorkers EXCEPT ![w].st = "exited"]
  /\ \E e \in WorkerErrors :
       LET c == dWorkers[w].owner IN
       dCall' = [dCall EXCEPT ![c] =
                   IF @.pc = "worker"
                   THEN rejectCall([@ EXCEPT !.dispatchFail = (e = "WorkerLoadError"),
                                             !.streamErr = IF e \in StreamErrors
                                                           THEN e ELSE "none"], e)
                   ELSE @]
  /\ UNCHANGED <<dImpl, dIsNode, dHasWorker, parseVars, codecVars, paramVars, flateVars, listVars, entVars, authVars>>

\* worker.on('exit', code => { if (code !== 0) rej(); })   (Node only)
WorkerExit(w) ==
  /\ dIsNode
  /\ dWorkers[w].st \in {"running", "posted"}
  /\ dWorkers' = [dWorkers EXCEPT ![w].st = "exited"]
  /\ \E code \in {0, 1} :
       LET c == dWorkers[w].owner IN
       dCall' = [dCall EXCEPT ![c] =
                   IF @.pc = "worker" /\ code # 0
                   THEN rejectCall([@ EXCEPT !.dispatchFail = TRUE], "undefined")
                   ELSE @]
  /\ UNCHANGED <<dImpl, dIsNode, dHasWorker, parseVars, codecVars, paramVars, flateVars, listVars, entVars, authVars>>

DcNext ==
  \/ \E c \in Calls :
       \/ DecompressZlib(c)
       \/ ZlibCallback(c)
       \/ DecompressThisData(c)
       \/ DecompressStartWorker(c)
       \/ DecompressWorkerCtorThrows(c)
       \/ DecompressSync(c)
  \/ \E w \in DOMAIN dWorkers :
       \/ WorkerMessage(w)
       \/ WorkerError(w)
       \/ WorkerExit(w)

\* C9: when dispatching to the background worker fails (the worker cannot
\* be created, reports an error, or exits abnormally), decompress falls
\* back to synchronous in-process inflate and still returns the result.
C9_DispatchFailureFallsBackToSync ==
  \A c \in DOMAIN dCall :
    dCall[c].dispatchFail => (dCall[c].pc = "resolved" /\ dCall[c].sync)

WorkersOf(c) == {w \in DOMAIN dWorkers : dWorkers[w].owner = c}

\* C21: a call creates at most one worker, no two calls share a worker:
\* every worker holds the input of the one call that created it, a call
\* that waits for a worker has a worker of its own, and a waiting call
\* changes only on an event of its own worker.
C21_OneWorkerPerCall ==
  /\ [](\A c \in DOMAIN dCall :
         /\ Cardinality(WorkersOf(c)) <= 1
         /\ dCall[c].pc = "worker" => Cardinality(WorkersOf(c)) = 1
         /\ \A w \in WorkersOf(c) : dWorkers[w].data = dCall[c].in)
  /\ [][\A c \in DOMAIN dCall :
          dCall[c].pc = "worker" /\ dCall'[c] # dCall[c] =>
            \E w \in WorkersOf(c) : dWorkers'[w] # dWorkers[w]]_vars

\* two calls with different inputs each got the answer of a worker of
\* their own
C21_Witness ==
  /\ Len(dWorkers) >= 2
  /\ \E c1, c2 \in DOMAIN dCall :
       /\ c1 # c2
       /\ dCall[c1].in # dCall[c2].in
       /\ WorkersOf(c1) # {} /\ WorkersOf(c2) # {}
       /\ dCall[c1].pc = "resolved" /\ dCall[c2].pc = "resolved"
       /\ \A w \in WorkersOf(c1) \cup WorkersOf(c2) : dWorkers[w].st = "posted"

\* C27: every call to decompress settles: no call is left waiting for a
\* worker that has terminated, or that could not be started.
C27_NoCallWaitsForDeadWorker ==
  \A c \in DOMAIN dCall :
    dCall[c].pc = "worker" => \E w \in WorkersOf(c) : dWorkers[w].st # "exited"

----------------------------------------------------------------------------
(* util/crypto: the XOR cipher and the service Base64                      *)

RECURSIVE BitXor(_, _)
BitXor(a, b) ==
  IF a = 0 THEN b
  ELSE IF b = 0 THEN a
  ELSE (IF a % 2 # b % 2 THEN 1 ELSE 0) + 2 * BitXor(a \div 2, b \div 2)

\* a cipher that uses the first character of the key only
cipherFirstKeyChar(str, key) == [i \in 1..Len(str) |-> BitXor(str[i], key[1])]

\* str.split('').map((char, i) => char.charCodeAt(0) ^ key.charCodeAt(i % key.length))
cipher(str, key) ==
  [i \in 1..Len(str) |-> BitXor(str[i], key[((i - 1) % Len(key)) + 1])]

\* the Base64 alphabet: A-Z a-z 0-9 + /
b64Char(i) ==
  IF i < 26 THEN 65 + i
  ELSE IF i < 52 THEN 97 + (i - 26)
  ELSE IF i < 62 THEN 48 + (i - 52)
  ELSE IF i = 62 THEN 43
  ELSE 47

\* btoa: three bytes to four characters, '=' padding
RECURSIVE btoa(_)
btoa(s) ==
  IF Len(s) = 0 THEN <<>>
  ELSE IF Len(s) = 1 THEN
    <<b64Char(s[1] \div 4), b64Char((s[1] % 4) * 16), 61, 61>>
  ELSE IF Len(s) = 2 THEN
    <<b64Char(s[1] \div 4), b64Char((s[1] % 4) * 16 + s[2] \div 16),
      b64Char((s[2] % 16) * 4), 61>>
  ELSE
    <<b64Char(s[1] \div 4), b64Char((s[1] % 4) * 16 + s[2] \div 16),
      b64Char((s[2] % 16) * 4 + s[3] \div 64), b64Char(s[3] % 64)>>
    \o btoa(SubSeq(s, 4, Len(s)))

\* str.replace(/x/g, y) for single characters
replaceAll(s, from, to) == [i \in 1..Len(s) |-> IF s[i] = from THEN to ELSE s[i]]

\* btoa(str).replace(/\//g, '_').replace(/\+/g, '-')
gdEncodeBase64(str) == replaceAll(replaceAll(btoa(str), 47, 95), 43, 45)

\* btoa(cipher(str, key)).replace(/\//g, '_').replace(/\+/g, '-')
encrypt(str, key) == replaceAll(replaceAll(btoa(cipher(str, key)), 47, 95), 43, 45)

\* the account-password key exported by util/crypto
accountKey == <<51, 55, 53, 50, 54>>
\* the keys and salts of the comment and like checksums
commentKey == <<50, 57, 52, 56, 49>>
commentSalt == <<120, 80, 84, 54, 105, 85, 114, 116, 119, 115, 48, 74>>
likeKey == <<53, 56, 50, 56, 49>>
likeSalt == <<121, 115, 103, 54, 112, 85, 114, 116, 106, 110, 48, 74>>

\* the sha1 package, idealised as a collision-free tagging of its input
sha1(s) == <<35>> \o s

----------------------------------------------------------------------------
(* util/crypto: the Base64 codecs of the browser (encdec) and of Node      *)
(* (node-encdec), and decrypt                                              *)

\* btoa throws InvalidCharacterError on a character code above 255
btoaThrows(s) == \E i \in 1..Len(s) : s[i] > 255

\* the value of a character in the Base64 alphabet, -1 outside of it
b64Index(c) ==
  IF c >= 65 /\ c <= 90 THEN c - 65
  ELSE IF c >= 97 /\ c <= 122 THEN c - 71
  ELSE IF c >= DIGIT0 /\ c <= DIGIT9 THEN c + 4
  ELSE IF c = 43 THEN 62
  ELSE IF c = 47 THEN 63
  ELSE -1

\* sextets to bytes: four to three, a rest of three to two, of two to one
RECURSIVE sextetsToBytes(_)
sextetsToBytes(d) ==
  IF Len(d) < 2 THEN <<>>
  ELSE IF Len(d) = 2 THEN <<d[1] * 4 + d[2] \div 16>>
  ELSE IF Len(d) = 3 THEN <<d[1] * 4 + d[2] \div 16, (d[2] % 16) * 16 + d[3] \div 4>>
  ELSE <<d[1] * 4 + d[2] \div 16, (d[2] % 16) * 16 + d[3] \div 4, (d[3] % 4) * 64 + d[4]>>
       \o sextetsToBytes(SubSeq(d, 5, Len(d)))

\* atob: ASCII whitespace is removed, then one or two '=' at the end of a
\* string whose length is a multiple of four
atobData(str) ==
  LET s == SelectSeq(str, LAMBDA c : c \notin {9, 10, 12, 13, 32})
      n == Len(s)
  IN IF n > 0 /\ n % 4 = 0 /\ s[n] = 61
     THEN IF s[n - 1] = 61 THEN SubSeq(s, 1, n - 2) ELSE SubSeq(s, 1, n - 1)
     ELSE s

\* atob throws InvalidCharacterError on a length of 1 modulo 4 and on a
\* character outside the alphabet
atobThrows(str) ==
  LET d == atobData(str)
  IN Len(d) % 4 = 1 \/ \E i \in 1..Len(d) : b64Index(d[i]) = -1

atob(str) ==
  LET d == atobData(str)
  IN sextetsToBytes([i \in 1..Len(d) |-> b64Index(d[i])])

\* encdec: atob(str.replace(/_/g, '/').replace(/-/g, '+'))
gdDecodeBase64NoRestore(str) == atob(str)
gdDecodeBase64(str) == atob(replaceAll(replaceAll(str, 95, 47), 45, 43))

gdDecodeBase64Throws(str) == atobThrows(replaceAll(replaceAll(str, 95, 47), 45, 43))

\* Buffer.from(str): the UTF-8 bytes of a string of code units below the
\* surrogates
utf8EncodeUnit(c) ==
  IF c < 128 THEN <<c>>
  ELSE IF c < 2048 THEN <<192 + c \div 64, 128 + (c % 64)>>
  ELSE <<224 + c \div 4096, 128 + ((c \div 64) % 64), 128 + (c % 64)>>

RECURSIVE utf8Encode(_)
utf8Encode(str) ==
  IF Len(str) = 0 THEN <<>> ELSE utf8EncodeUnit(Head(str)) \o utf8Encode(Tail(str))

isContinuation(b) == b >= 128 /\ b <= 191

\* buf.toString(): UTF-8 decoding, U+FFFD for a byte that starts no
\* well-formed sequence
RECURSIVE utf8Decode(_)
utf8Decode(b) ==
  IF Len(b) = 0 THEN <<>>
  ELSE IF b[1] < 128 THEN <<b[1]>> \o utf8Decode(Tail(b))
  ELSE IF b[1] >= 194 /\ b[1] <= 223 /\ Len(b) >= 2 /\ isContinuation(b[2])
    THEN <<(b[1] - 192) * 64 + (b[2] - 128)>> \o utf8Decode(SubSeq(b, 3, Len(b)))
  ELSE IF b[1] >= 224 /\ b[1] <= 239 /\ Len(b) >= 3 /\ isContinuation(b[2])
          /\ isContinuation(b[3])
          /\ (b[1] - 224) * 4096 + (b[2] - 128) * 64 + (b[3] - 128) >= 2048
          /\ (b[1] # 237 \/ b[2] < 160)
    THEN <<(b[1] - 224) * 4096 + (b[2] - 128) * 64 + (b[3] - 128)>>
         \o utf8Decode(SubSeq(b, 4, Len(b)))
  ELSE <<65533>> \o utf8Decode(Tail(b))

\* buf.toString('base64'): standard Base64 of the bytes, with padding
bufferToBase64(bytes) == btoa(bytes)

\* the value of a character for Buffer.from(str, 'base64'), which reads the
\* standard and the URL-safe alphabet
nodeB64Index(c) == IF c = 45 THEN 62 ELSE IF c = 95 THEN 63 ELSE b64Index(c)

\* Buffer.from(str, 'base64'): reads up to the first '=', skips the
\* characters of neither alphabet
bufferFromBase64(str) ==
  LET stop == IF \E i \in 1..Len(str) : str[i] = 61
              THEN (CHOOSE i \in 1..Len(str) :
                      str[i] = 61 /\ \A j \in 1..(i - 1) : str[j] # 61) - 1
              ELSE Len(str)
      d == SelectSeq(SubSeq(str, 1, stop), LAMBDA c : nodeB64Index(c) # -1)
  IN sextetsToBytes([i \in 1..Len(d) |-> nodeB64Index(d[i])])

\* node-encdec with isNode: Buffer.from(str).toString('base64')
nodeGdEncodeBase64(str) == bufferToBase64(utf8Encode(str))

\* node-encdec with isNode: Buffer.from(str, 'base64').toString()
nodeGdDecodeBase64(str) == utf8Decode(bufferFromBase64(str))

\* a decrypt that does not restore '/' and '+'
decryptNoRestore(str, key) == cipher(atob(str), key)

\* decrypt: cipher(atob(str.replace(/_/g, '/').replace(/-/g, '+')), key)
decrypt(str, key) == cipher(atob(replaceAll(replaceAll(str, 95, 47), 45, 43)), key)

\* the checksum of a request: encrypt(sha1(fields joined + salt), key)
RECURSIVE join(_)
join(fields) == IF Len(fields) = 0 THEN <<>> ELSE Head(fields) \o join(Tail(fields))

chkWithoutSalt(fields, salt, key) == encrypt(sha1(join(fields)), key)
chk(fields, salt, key) == encrypt(sha1(join(fields) \o salt), key)

CodecIdle ==
  /\ cPc = "idle"
  /\ cIsNode = FALSE
  /\ cStr = <<>>
  /\ cKey = <<>>
  /\ cFields = <<>>
  /\ cSalt = <<>>
  /\ cMid = <<>>
  /\ cOut = <<>>
  /\ cErr = "none"

\* character codes of the strings handed to the Base64 codecs: NUL, '>',
\* '?', 'a' and four codes above 127
CodecAlphabet == {0, 62, 63, 97, 128, 251, 255}

CodecInit ==
  /\ cPc = "ready"
  /\ cIsNode \in BOOLEAN
  /\ cStr \in StringsUpTo(CodecAlphabet, MaxStrLen)
  /\ cKey = <<>>
  /\ cFields = <<>>
  /\ cSalt = <<>>
  /\ cMid = <<>>
  /\ cOut = <<>>
  /\ cErr = "none"

\* gdEncodeBase64 of node-encdec: the Buffer variant under isNode, the
\* browser variant of encdec otherwise
EncodeBase64 ==
  /\ cPc = "ready"
  /\ cPc' = "encoded"
  /\ IF cIsNode
     THEN cMid' = nodeGdEncodeBase64(cStr) /\ cErr' = "none"
     ELSE IF btoaThrows(cStr)
          THEN cMid' = <<>> /\ cErr' = "InvalidCharacterError"
          ELSE cMid' = gdEncodeBase64(cStr) /\ cErr' = "none"
  /\ UNCHANGED <<cIsNode, cStr, cKey, cFields, cSalt, cOut,
                 parseVars, flateVars, listVars, entVars, dcVars, authVars, paramVars>>

\* gdDecodeBase64 of node-encdec, applied to the encoded string
DecodeBase64 ==
  /\ cPc = "encoded"
  /\ cErr = "none"
  /\ cPc' = "decoded"
  /\ IF cIsNode
     THEN cOut' = nodeGdDecodeBase64(cMid) /\ cErr' = "none"
     ELSE IF gdDecodeBase64Throws(cMid)
          THEN cOut' = <<>> /\ cErr' = "InvalidCharacterError"
          ELSE cOut' = gdDecodeBase64(cMid) /\ cErr' = "none"
  /\ UNCHANGED <<cIsNode, cStr, cKey, cFields, cSalt, cMid,
                 parseVars, flateVars, listVars, entVars, dcVars, authVars, paramVars>>

CodecNext == EncodeBase64 \/ DecodeBase64

\* code units of the strings handed to cipher, encrypt and decrypt: ' ',
\* 'N', '~', a Latin-1 letter and a surrogate
CipherAlphabet == {32, 78, 126, 200, 55357}

\* code units of the keys: '1', '5' and U+0100
KeyAlphabet == {49, 53, 256}

Keys == StringsUpTo(KeyAlphabet, MaxKeyLen) \ {<<>>}

CipherInit ==
  /\ cPc = "ready"
  /\ cIsNode = FALSE
  /\ cStr \in StringsUpTo(CipherAlphabet, MaxStrLen)
  /\ cKey \in Keys
  /\ cFields = <<>>
  /\ cSalt = <<>>
  /\ cMid = <<>>
  /\ cOut = <<>>
  /\ cErr = "none"

CipherFrame ==
  UNCHANGED <<cIsNode, cStr, cKey, cFields, cSalt,
              parseVars, flateVars, listVars, entVars, dcVars, authVars, paramVars>>

\* cipher(str, key)
Cipher ==
  /\ cPc = "ready"
  /\ cPc' = "ciphered"
  /\ cMid' = cipher(cStr, cKey)
  /\ UNCHANGED <<cOut, cErr>>
  /\ CipherFrame

\* cipher(cipher(str, key), key)
CipherAgain ==
  /\ cPc = "ciphered"
  /\ cPc' = "deciphered"
  /\ cOut' = cipher(cMid, cKey)
  /\ UNCHANGED <<cMid, cErr>>
  /\ CipherFrame

\* encrypt(str, key): btoa throws on a code above 255
Encrypt ==
  /\ cPc = "ready"
  /\ cPc' = "encrypted"
  /\ IF btoaThrows(cipher(cStr, cKey))
     THEN cMid' = <<>> /\ cErr' = "InvalidCharacterError"
     ELSE cMid' = encrypt(cStr, cKey) /\ cErr' = "none"
  /\ UNCHANGED cOut
  /\ CipherFrame

\* decrypt(encrypt(str, key), key)
Decrypt ==
  /\ cPc = "encrypted"
  /\ cErr = "none"
  /\ cPc' = "decrypted"
  /\ IF gdDecodeBase64Throws(cMid)
     THEN cOut' = <<>> /\ cErr' = "InvalidCharacterError"
     ELSE cOut' = decrypt(cMid, cKey) /\ cErr' = "none"
  /\ UNCHANGED cMid
  /\ CipherFrame

CipherNext == Cipher \/ CipherAgain \/ Encrypt \/ Decrypt

\* the fields joined into a checksum, already in their string form
FieldValues == StringsUpTo({49, 97}, MaxFieldLen)

FieldLists == [1..2 -> FieldValues]

Salts == {commentSalt, likeSalt, <<>>}

ChkKeys == {commentKey, likeKey, <<49>>, <<49, 49>>, <<49, 50>>}

ChecksumInit ==
  /\ cPc = "ready"
  /\ cIsNode = FALSE
  /\ cStr = <<>>
  /\ cKey \in ChkKeys
  /\ cFields \in FieldLists
  /\ cSalt \in Salts
  /\ cMid = <<>>
  /\ cOut = <<>>
  /\ cErr = "none"

\* const chk = encrypt(sha1(... + salt), key)
Checksum ==
  /\ cPc = "ready"
  /\ cPc' = "checksummed"
  /\ cOut' = chk(cFields, cSalt, cKey)
  /\ UNCHANGED <<cMid, cErr>>
  /\ CipherFrame

ChecksumNext == Checksum

----------------------------------------------------------------------------
(* util/param: GDRequestParams.  An object is the sequence of its entries  *)
(* [k, v] in insertion order, keys unique.                                 *)

HasKey(obj, k) == \E i \in 1..Len(obj) : obj[i].k = k

GetKey(obj, k) ==
  IF HasKey(obj, k) THEN obj[CHOOSE i \in 1..Len(obj) : obj[i].k = k].v ELSE Undefined

\* obj[k] = v: an existing key keeps its position, a new key goes last
PutKey(obj, k, v) ==
  IF HasKey(obj, k)
  THEN [i \in 1..Len(obj) |-> IF obj[i].k = k THEN [k |-> k, v |-> v] ELSE obj[i]]
  ELSE Append(obj, [k |-> k, v |-> v])

\* Object.assign(target, src) and the spread {...target, ...src}
RECURSIVE objectAssign(_, _)
objectAssign(target, src) ==
  IF src = <<>> THEN target
  ELSE objectAssign(PutKey(target, Head(src).k, Head(src).v), Tail(src))

SECRETS ==
  [db |-> <<87, 109, 102, 100, 50, 56, 57, 51, 103, 98, 55>>, account |-> <<87, 109, 102, 118, 51, 56, 57, 57, 103, 99, 57>>, moderator |-> <<87, 109, 102, 112, 51, 56, 55, 57, 103, 99, 51>>]

\* a constructor whose defaults overwrite the given fields
newParamsDefaultsWin(data) ==
  objectAssign(data, <<[k |-> "gdw", v |-> Num(0)],
                       [k |-> "gameVersion", v |-> Num(21)],
                       [k |-> "binaryVersion", v |-> Num(35)]>>)

\* constructor: this.data = {gdw: 0, gameVersion: 21, binaryVersion: 35, ...data}
newParams(data) ==
  objectAssign(<<[k |-> "gdw", v |-> Num(0)],
                 [k |-> "gameVersion", v |-> Num(21)],
                 [k |-> "binaryVersion", v |-> Num(35)]>>, data)

\* a merge that keeps the values already present
insertParamsKeepExisting(params, data) == objectAssign(data, params)

\* return Object.assign(this.data, data)
insertParams(params, data) == objectAssign(params, data)

\* an authorize that keeps a secret already present
authorizeParamsKeepsSecret(params, type) ==
  IF HasKey(params, "secret") THEN params ELSE PutKey(params, "secret", Str(SECRETS[type]))

\* this.data.secret = SECRETS[type]
authorizeParams(params, type) == PutKey(params, "secret", Str(SECRETS[type]))

RECURSIVE natToString(_)
natToString(n) ==
  IF n < 10 THEN <<DIGIT0 + n>> ELSE Append(natToString(n \div 10), DIGIT0 + (n % 10))

\* value.toString() and the string a value takes in a concatenation
toString(v) ==
  CASE v.t = "string" -> v.s
    [] v.t = "NaN" -> <<78, 97, 78>>
    [] v.t = "number" -> IF v.n < 0 THEN <<MINUS>> \o natToString(0 - v.n)
                         ELSE natToString(v.n)

\* the numeric value of a key that is an array index ('1' and '2' among the
\* keys of the model), -1 for a name
indexValue(k) == IF k = "1" THEN 1 ELSE IF k = "2" THEN 2 ELSE -1

isArrayIndex(k) == indexValue(k) # -1

RECURSIVE sortByIndex(_)
sortByIndex(es) ==
  IF es = <<>> THEN <<>>
  ELSE LET m == CHOOSE i \in 1..Len(es) :
                  \A j \in 1..Len(es) : indexValue(es[i].k) <= indexValue(es[j].k)
       IN <<es[m]>> \o sortByIndex(SubSeq(es, 1, m - 1) \o SubSeq(es, m + 1, Len(es)))

\* Object.keys / Object.entries: the array-index keys in ascending order,
\* then the names in the order of their creation
ownEntries(obj) ==
  sortByIndex(SelectSeq(obj, LAMBDA e : isArrayIndex(e.k)))
    \o SelectSeq(obj, LAMBDA e : ~isArrayIndex(e.k))

\* the pairs in the order of creation of the keys
resolveInsertionOrder(params) ==
  [i \in 1..Len(params) |-> [k |-> params[i].k, v |-> toString(params[i].v)]]

\* Object.keys(this.data).map(paramName => [paramName, this.data[paramName].toString()])
resolve(params) ==
  LET es == ownEntries(params)
  IN [i \in 1..Len(es) |-> [k |-> es[i].k, v |-> toString(es[i].v)]]

\* the keys of the field maps handed to GDRequestParams: a default field,
\* a name and two array indices
ParamKeys == {"gdw", "x", "1", "2"}

\* the values a key takes: a number, and for 'x' also a string
ParamValues(k) == IF k = "x" THEN {Num(1), Str(<<50>>)} ELSE {Num(1)}

\* GDRequestData: the field maps of at most MaxMapLen entries
ParamMaps ==
  {m \in UNION {[1..n -> [k : ParamKeys, v : {Num(1), Str(<<50>>)}]] : n \in 0..MaxMapLen} :
     /\ \A i \in 1..Len(m) : m[i].v \in ParamValues(m[i].k)
     /\ \A i, j \in 1..Len(m) : i # j => m[i].k # m[j].k}

\* type: keyof typeof SECRETS = 'db'
SecretTypes == {"db", "account", "moderator", "undefined"}

NoArg == [map |-> <<>>, type |-> "none"]

ParamIdle ==
  /\ gPc = "idle"
  /\ gArg = NoArg
  /\ gBefore = <<>>
  /\ gData = <<>>
  /\ gRet = <<>>
  /\ gOps = 0

ParamInit ==
  /\ gPc = "none"
  /\ gArg = NoArg
  /\ gBefore = <<>>
  /\ gData = <<>>
  /\ gRet = <<>>
  /\ gOps = 0

ParamFrame == UNCHANGED <<parseVars, flateVars, listVars, entVars, dcVars, authVars, codecVars>>

\* new GDRequestParams(data)
NewParams ==
  /\ gPc = "none"
  /\ \E data \in ParamMaps :
       /\ gArg' = [map |-> data, type |-> "none"]
       /\ gData' = newParams(data)
  /\ gPc' = "constructed"
  /\ UNCHANGED <<gBefore, gRet, gOps>>
  /\ ParamFrame

\* params.insertParams(data)
InsertParams ==
  /\ gPc \notin {"idle", "none"}
  /\ gOps < MaxParamOps
  /\ \E data \in ParamMaps :
       /\ gArg' = [map |-> data, type |-> "none"]
       /\ gData' = insertParams(gData, data)
       /\ gRet' = insertParams(gData, data)
  /\ gBefore' = gData
  /\ gPc' = "inserted"
  /\ gOps' = gOps + 1
  /\ ParamFrame

\* params.authorize(type)
Authorize ==
  /\ gPc \notin {"idle", "none"}
  /\ gOps < MaxParamOps
  /\ \E arg \in SecretTypes :
       LET type == IF arg = "undefined" THEN "db" ELSE arg IN
       /\ gArg' = [map |-> <<>>, type |-> arg]
       /\ gData' = authorizeParams(gData, type)
       /\ gRet' = authorizeParams(gData, type)
  /\ gBefore' = gData
  /\ gPc' = "authorized"
  /\ gOps' = gOps + 1
  /\ ParamFrame

\* params.resolve()
Resolve ==
  /\ gPc \notin {"idle", "none"}
  /\ gOps < MaxParamOps
  /\ gArg' = NoArg
  /\ gRet' = resolve(gData)
  /\ gBefore' = gData
  /\ gPc' = "resolved"
  /\ gOps' = gOps + 1
  /\ UNCHANGED gData
  /\ ParamFrame

ParamNext == NewParams \/ InsertParams \/ Authorize \/ Resolve

----------------------------------------------------------------------------
(* entities/user: UserCreator.login, UserCreator.authorize and the         *)
(* requests of LoggedInUser, sent through Client.req                       *)

\* the failure sentinel and the success answer of the server
SENTINEL == <<45, 49>>
ONE == <<49>>

Usernames == {<<117>>}
Passwords == StringsUpTo({112}, MaxPwLen) \ {<<>>}

\* util/udid: a random string drawn once per process
Udids == {<<107, 51>>, <<122, 57>>}

\* genRS(): a random string per like request
RandomStrings == {<<114, 49>>, <<114, 50>>}

\* account IDs and user IDs the server may name in its answers
ServerAccountIDs == {1, 12}
ServerUserIDs == {7}

\* the answer "accountID,userID" of the login endpoint
LoginAnswer(a, u) == natToString(a) \o <<COMMA>> \o natToString(u)

\* answers of /accounts/loginGJAccount.php: the sentinel or "accountID,userID"
LoginResponses ==
  {SENTINEL} \cup {LoginAnswer(a, u) : a \in ServerAccountIDs, u \in ServerUserIDs}

\* answers of /getGJUserInfo20.php: the sentinel or a colon-separated record
\* (key 1 the name, key 2 the user ID, key 16 the account ID; a record may
\* lack key 16)
InfoResponses ==
  {SENTINEL, <<49, 58, 117, 58, 50, 58, 55>>} \cup {<<49, 58, 117, 58, 50, 58, 55, 58, 49, 54, 58>> \o natToString(a) : a \in ServerAccountIDs}

\* answers of the endpoints of the logged-in user
OpResponses == {ONE, SENTINEL}

\* a transport failure: fetch rejects
NETWORK_ERROR == <<33>>

\* identifiers handed to the operations by the caller
AccountIDs == {Num(1), Num(12)}
ItemIDs == {Num(5)}
Texts == {<<109>>}

NoCreds == [userName |-> <<>>, accountID |-> Undefined, gjp |-> <<>>]
NoUser == [username |-> Undefined, id |-> Undefined, accountID |-> Undefined, creds |-> NoCreds]
NoRet == [op |-> "none", val |-> "none"]
NoItem == [isEntity |-> FALSE, id |-> Undefined, owner |-> Undefined]

\* a comparison that takes every two values for equal
StrictEqualsAlways(a, b) == TRUE

\* a === b on values (NaN equals nothing)
StrictEquals(a, b) == a.t # "NaN" /\ b.t # "NaN" /\ a = b

\* d[k] on a parsed record
Field(d, k) == IF k \in DOMAIN d THEN d[k] ELSE Undefined

\* new User(creator, rawData): const d = parse(rawData); this.username = d[1];
\* this.id = +d[2]; this.accountID = +d[16];
\* new LoggedInUser(creator, rawData, creds) keeps creds in this._creds
newLoggedInUser(rawData, creds) ==
  LET d == parse(rawData, COLON) IN
  [username |-> Field(d, <<49>>),
   id |-> ToNumber(Field(d, <<50>>)),
   accountID |-> ToNumber(Field(d, <<49, 54>>)),
   creds |-> creds]

\* Client.req(url, {method: 'POST', body}): sentBody = body.resolve(), fetch
request(op, url, params) == [op |-> op, url |-> url, body |-> resolve(params)]

\* the parameters of the login request
loginParams(userCreds, udid) ==
  authorizeParams(
    insertParams(newParams(<<>>),
                 <<[k |-> "userName", v |-> Str(userCreds.username)],
                   [k |-> "password", v |-> Str(userCreds.password)],
                   [k |-> "udid", v |-> Str(udid)]>>),
    "account")

\* the credentials with the user ID (index 1) taken for the account ID
loginCredsFromUserID(userCreds, data) ==
  [userName |-> userCreds.username,
   accountID |-> ToNumber(At(Split(data, COMMA), 1)),
   gjp |-> encrypt(userCreds.password, accountKey)]

\* the credentials with the password left unencrypted
loginCredsPlainPassword(userCreds, data) ==
  [userName |-> userCreds.username,
   accountID |-> ToNumber(At(Split(data, COMMA), 0)),
   gjp |-> userCreds.password]

\* const [accountIDStr] = data.split(','); {userName, accountID: +accountIDStr,
\* gjp: encrypt(userCreds.password, accountKey)}
loginCreds(userCreds, data) ==
  [userName |-> userCreds.username,
   accountID |-> ToNumber(At(Split(data, COMMA), 0)),
   gjp |-> encrypt(userCreds.password, accountKey)]

\* the parameters of the user-info request of authorize
infoParams(creds) ==
  authorizeParams(newParams(<<[k |-> "targetAccountID", v |-> creds.accountID]>>), "db")

\* the sentinel check left out
loginNeverRejected(data) == FALSE

\* if (data === '-1') throw new TypeError(...)
loginRejected(data) == data = SENTINEL

AuthIdle ==
  /\ aPc = "idle"
  /\ aUdid = <<>>
  /\ aUserCreds = [username |-> <<>>, password |-> <<>>]
  /\ aLoginResp = <<>>
  /\ aInfoResp = <<>>
  /\ aCreds = NoCreds
  /\ aUser = NoUser
  /\ aLog = <<>>
  /\ aSent = <<>>
  /\ aErr = "none"
  /\ aRet = NoRet
  /\ aOps = 0
  /\ aArg = NoItem

AuthInit ==
  /\ aPc = "anonymous"
  /\ aUdid \in Udids
  /\ aUserCreds = [username |-> <<>>, password |-> <<>>]
  /\ aLoginResp = <<>>
  /\ aInfoResp = <<>>
  /\ aCreds = NoCreds
  /\ aUser = NoUser
  /\ aLog = <<>>
  /\ aSent = <<>>
  /\ aErr = "none"
  /\ aRet = NoRet
  /\ aOps = 0
  /\ aArg = NoItem

\* UserCreator.login up to its first await: the login request is sent
Login ==
  /\ aPc = "anonymous"
  /\ \E u \in Usernames, p \in Passwords :
       /\ aUserCreds' = [username |-> u, password |-> p]
       /\ aLog' = Append(aLog, request("login", "/accounts/loginGJAccount.php",
                                       loginParams([username |-> u, password |-> p], aUdid)))
  /\ aPc' = "awaitLogin"
  /\ UNCHANGED <<aUdid, aLoginResp, aInfoResp, aCreds, aUser, aSent, aErr, aRet, aOps, aArg,
                 parseVars, codecVars, paramVars, flateVars, listVars, entVars, dcVars>>

\* the login request fails in transport: the await throws
LoginTransportError ==
  /\ aPc = "awaitLogin"
  /\ aPc' = "failed"
  /\ aErr' = "NetworkError"
  /\ aLoginResp' = NETWORK_ERROR
  /\ UNCHANGED <<aUdid, aUserCreds, aInfoResp, aCreds, aUser, aLog, aSent, aRet, aOps, aArg,
                 parseVars, codecVars, paramVars, flateVars, listVars, entVars, dcVars>>

\* UserCreator.login after its await: the sentinel throws, any other answer
\* yields the credentials and UserCreator.authorize sends the user-info request
LoginResponse ==
  /\ aPc = "awaitLogin"
  /\ \E data \in LoginResponses :
       /\ aLoginResp' = data
       /\ IF loginRejected(data)
          THEN /\ aPc' = "failed"
               /\ aErr' = "TypeError"
               /\ UNCHANGED <<aCreds, aLog>>
          ELSE /\ aPc' = "awaitInfo"
               /\ aCreds' = loginCreds(aUserCreds, data)
               /\ aLog' = Append(aLog, request("authorize", "/getGJUserInfo20.php",
                                               infoParams(loginCreds(aUserCreds, data))))
               /\ UNCHANGED aErr
  /\ UNCHANGED <<aUdid, aUserCreds, aInfoResp, aUser, aSent, aRet, aOps, aArg,
                 parseVars, codecVars, paramVars, flateVars, listVars, entVars, dcVars>>

\* the user-info request fails in transport
InfoTransportError ==
  /\ aPc = "awaitInfo"
  /\ aPc' = "failed"
  /\ aErr' = "NetworkError"
  /\ aInfoResp' = NETWORK_ERROR
  /\ UNCHANGED <<aUdid, aUserCreds, aLoginResp, aCreds, aUser, aLog, aSent, aRet, aOps, aArg,
                 parseVars, codecVars, paramVars, flateVars, listVars, entVars, dcVars>>

\* UserCreator.authorize after its await: the sentinel throws, any other
\* answer constructs the LoggedInUser that holds the credentials
InfoResponse ==
  /\ aPc = "awaitInfo"
  /\ \E infoData \in InfoResponses :
       /\ aInfoResp' = infoData
       /\ IF infoData = SENTINEL
          THEN /\ aPc' = "failed"
               /\ aErr' = "TypeError"
               /\ UNCHANGED aUser
          ELSE /\ aPc' = "authenticated"
               /\ aUser' = newLoggedInUser(infoData, aCreds)
               /\ UNCHANGED aErr
  /\ UNCHANGED <<aUdid, aUserCreds, aLoginResp, aCreds, aLog, aSent, aRet, aOps, aArg,
                 parseVars, codecVars, paramVars, flateVars, listVars, entVars, dcVars>>

----------------------------------------------------------------------------
(* entities/user: the operations of LoggedInUser                           *)

LoggedIn == aPc = "authenticated" /\ aOps < MaxOps

Entry(k, v) == [k |-> k, v |-> v]

\* the spread ...this._creds: userName, accountID, gjp
credsEntries(creds) ==
  <<Entry("userName", Str(creds.userName)), Entry("accountID", creds.accountID),
    Entry("gjp", Str(creds.gjp))>>

\* the pair {accountID: this.accountID, gjp: this._creds.gjp}
userEntries(user) ==
  <<Entry("accountID", user.accountID), Entry("gjp", Str(user.creds.gjp))>>

\* new GDRequestParams(data); params.authorize('db')
opParams(data) == authorizeParams(newParams(data), "db")

\* an entity or a bare identifier handed to an operation: its ID and, for
\* an entity, the account it belongs to
ItemArgs == [isEntity : BOOLEAN, id : ItemIDs, owner : AccountIDs]

\* a friend request entity
FriendRequests == [id : ItemIDs, from : AccountIDs, to : AccountIDs]

\* a level entity or a bare level ID: its ID and its creator's user ID
LevelArgs == [isEntity : BOOLEAN, id : ItemIDs, creatorID : {Num(7), Num(9)}]

\* an operation that sends its request again when the answer is not '1'
SendsForBooleanRetrying(op, url, data) ==
  \E resp \in OpResponses \cup {NETWORK_ERROR} :
    /\ aSent' = IF resp = ONE THEN <<request(op, url, opParams(data))>>
                ELSE <<request(op, url, opParams(data)), request(op, url, opParams(data))>>
    /\ aRet' = [op |-> op, val |-> IF resp = ONE THEN "true" ELSE "false"]

\* the request is sent once; the answer arrives and the operation returns
\* (await req(...)) === '1', or fetch rejects and the operation throws
SendsForBoolean(op, url, data) ==
  /\ aSent' = <<request(op, url, opParams(data))>>
  /\ \E resp \in OpResponses \cup {NETWORK_ERROR} :
       aRet' = [op |-> op, val |-> IF resp = NETWORK_ERROR THEN "throws"
                                   ELSE IF resp = ONE THEN "true" ELSE "false"]

\* if (data === '-1') return null; return new ...Comment(...)
SendsForComment(op, url, data) ==
  /\ aSent' = <<request(op, url, opParams(data))>>
  /\ \E resp \in OpResponses \cup {NETWORK_ERROR} :
       aRet' = [op |-> op, val |-> IF resp = NETWORK_ERROR THEN "throws"
                                   ELSE IF resp = SENTINEL THEN "null" ELSE "comment"]

\* return false before any request
ReturnsFalse(op) ==
  /\ aRet' = [op |-> op, val |-> "false"]
  /\ aSent' = <<>>

OpFrame ==
  /\ aOps' = aOps + 1
  /\ UNCHANGED <<aPc, aUdid, aUserCreds, aLoginResp, aInfoResp, aCreds, aUser, aLog,
                 aErr, parseVars, codecVars, paramVars, flateVars, listVars, entVars, dcVars>>

PostAccountComment ==
  /\ LoggedIn
  /\ \E msg \in Texts :
       SendsForComment("postAccountComment", "/uploadGJAccComment20.php",
                       credsEntries(aUser.creds)
                         \o <<Entry("comment", Str(gdEncodeBase64(msg)))>>)
  /\ aArg' = NoItem
  /\ OpFrame

\* encrypt(sha1(userName + comment + level + percent + '0' + commentSalt), commentKey)
commentChk(creds, comment, level, percent) ==
  chk(<<creds.userName, comment, toString(level), toString(percent), <<48>>>>,
      commentSalt, commentKey)

PostComment ==
  /\ LoggedIn
  /\ \E level \in ItemIDs, msg \in Texts, percentArg \in {Undefined, Num(0), Num(50)} :
       LET percent == IF Truthy(percentArg) THEN percentArg ELSE Num(0)
           comment == gdEncodeBase64(msg)
       IN SendsForComment("postComment", "/uploadGJComment21.php",
                          credsEntries(aUser.creds)
                            \o <<Entry("levelID", level), Entry("comment", Str(comment)),
                                 Entry("percent", percent),
                                 Entry("chk", Str(commentChk(aUser.creds, comment,
                                                             level, percent)))>>)
  /\ aArg' = NoItem
  /\ OpFrame

DeleteAccountComment ==
  /\ LoggedIn
  /\ \E c \in ItemArgs :
       /\ aArg' = c
       /\ IF c.isEntity /\ ~StrictEquals(c.owner, aUser.accountID)
          THEN ReturnsFalse("deleteAccountComment")
          ELSE SendsForBoolean("deleteAccountComment", "/deleteGJAccComment20.php",
                               userEntries(aUser) \o <<Entry("commentID", c.id)>>)
  /\ OpFrame

DeleteComment ==
  /\ LoggedIn
  /\ \E c \in ItemArgs, levelID \in ItemIDs :
       /\ aArg' = c
       /\ IF c.isEntity /\ ~StrictEquals(c.owner, aUser.accountID)
          THEN ReturnsFalse("deleteComment")
          ELSE SendsForBoolean("deleteComment", "/deleteGJComment20.php",
                               userEntries(aUser)
                                 \o <<Entry("commentID", c.id), Entry("levelID", levelID)>>)
  /\ OpFrame

SendFriendRequest ==
  /\ LoggedIn
  /\ \E id \in AccountIDs, msg \in Texts \cup {<<>>} :
       SendsForBoolean("sendFriendRequest", "/uploadFriendRequest20.php",
                       userEntries(aUser)
                         \o <<Entry("toAccountID", id),
                              Entry("comment", Str(gdEncodeBase64(msg)))>>)
  /\ aArg' = NoItem
  /\ OpFrame

SendMessage ==
  /\ LoggedIn
  /\ \E id \in AccountIDs, subject \in Texts, body \in Texts :
       SendsForBoolean("sendMessage", "/uploadGJMessage20.php",
                       userEntries(aUser)
                         \o <<Entry("toAccountID", id),
                              Entry("subject", Str(gdEncodeBase64(subject))),
                              Entry("body", Str(gdEncodeBase64(body)))>>)
  /\ aArg' = NoItem
  /\ OpFrame

AcceptFriendRequest ==
  /\ LoggedIn
  /\ \E fr \in FriendRequests :
       /\ aArg' = fr
       /\ IF ~StrictEquals(fr.to, aUser.accountID)
          THEN ReturnsFalse("acceptFriendRequest")
          ELSE SendsForBoolean("acceptFriendRequest", "/acceptGJFriendRequest20.php",
                               userEntries(aUser)
                                 \o <<Entry("requestID", fr.id),
                                      Entry("targetAccountID", fr.from)>>)
  /\ OpFrame

RejectFriendRequest ==
  /\ LoggedIn
  /\ \E fr \in FriendRequests :
       /\ aArg' = fr
       /\ IF ~StrictEquals(fr.to, aUser.accountID)
          THEN ReturnsFalse("rejectFriendRequest")
          ELSE SendsForBoolean("rejectFriendRequest", "/deleteGJFriendRequests20.php",
                               userEntries(aUser)
                                 \o <<Entry("targetAccountID", fr.from),
                                      Entry("isSender", Num(0))>>)
  /\ OpFrame

CancelFriendRequest ==
  /\ LoggedIn
  /\ \E fr \in FriendRequests :
       /\ aArg' = fr
       /\ IF ~StrictEquals(fr.from, aUser.accountID)
          THEN ReturnsFalse("cancelFriendRequest")
          ELSE SendsForBoolean("cancelFriendRequest", "/deleteGJFriendRequests20.php",
                               userEntries(aUser)
                                 \o <<Entry("targetAccountID", fr.to),
                                      Entry("isSender", Num(1))>>)
  /\ OpFrame

Unfriend ==
  /\ LoggedIn
  /\ \E id \in AccountIDs :
       SendsForBoolean("unfriend", "/removeGJFriend20.php",
                       userEntries(aUser) \o <<Entry("targetAccountID", id)>>)
  /\ aArg' = NoItem
  /\ OpFrame

Block ==
  /\ LoggedIn
  /\ \E id \in AccountIDs :
       SendsForBoolean("block", "/blockGJUser20.php",
                       userEntries(aUser) \o <<Entry("targetAccountID", id)>>)
  /\ aArg' = NoItem
  /\ OpFrame

Unblock ==
  /\ LoggedIn
  /\ \E id \in AccountIDs :
       SendsForBoolean("unblock", "/unblockGJUser20.php",
                       userEntries(aUser) \o <<Entry("targetAccountID", id)>>)
  /\ aArg' = NoItem
  /\ OpFrame

\* encrypt(sha1('' + special + id + like + type + rs + accountID + udid + uuid + likeSalt), likeKey)
likeChk(id, special, type, likeNum, rs, accountID, udid) ==
  chk(<<toString(special), toString(id), toString(likeNum), toString(type),
        rs, toString(accountID), udid, udid>>, likeSalt, likeKey)

\* the parameters of like(id, special, type, shouldLike, accountID, gjp, client)
likeEntries(id, special, type, shouldLike, accountID, gjp, udid, rs) ==
  LET likeNum == Num(IF shouldLike THEN 1 ELSE 0) IN
  <<Entry("accountID", accountID), Entry("gjp", Str(gjp)), Entry("type", type),
    Entry("special", special), Entry("itemID", id), Entry("like", likeNum),
    Entry("udid", Str(udid)), Entry("uuid", Str(udid)), Entry("rs", Str(rs)),
    Entry("chk", Str(likeChk(id, special, type, likeNum, rs, accountID, udid)))>>

\* likeLevel and dislikeLevel
LikeLevel ==
  /\ LoggedIn
  /\ \E id \in ItemIDs, shouldLike \in BOOLEAN, rs \in RandomStrings :
       SendsForBoolean("likeLevel", "/likeGJItem211.php",
                       likeEntries(id, Num(0), Num(1), shouldLike, aUser.accountID,
                                   aUser.creds.gjp, aUdid, rs))
  /\ aArg' = NoItem
  /\ OpFrame

\* likeComment and dislikeComment
LikeComment ==
  /\ LoggedIn
  /\ \E c \in ItemArgs, levelID \in ItemIDs, shouldLike \in BOOLEAN, rs \in RandomStrings :
       IF c.isEntity /\ StrictEquals(c.owner, aUser.accountID)
       THEN ReturnsFalse("likeComment")
       ELSE SendsForBoolean("likeComment", "/likeGJItem211.php",
                            likeEntries(c.id, levelID, Num(2), shouldLike, aUser.accountID,
                                        aUser.creds.gjp, aUdid, rs))
  /\ aArg' = NoItem
  /\ OpFrame

\* likeAccountComment and dislikeAccountComment
LikeAccountComment ==
  /\ LoggedIn
  /\ \E c \in ItemArgs, shouldLike \in BOOLEAN, rs \in RandomStrings :
       IF c.isEntity /\ StrictEquals(c.owner, aUser.accountID)
       THEN ReturnsFalse("likeAccountComment")
       ELSE SendsForBoolean("likeAccountComment", "/likeGJItem211.php",
                            likeEntries(c.id, c.owner, Num(3), shouldLike, aUser.accountID,
                                        aUser.creds.gjp, aUdid, rs))
  /\ aArg' = NoItem
  /\ OpFrame

UpdateLevelDescription ==
  /\ LoggedIn
  /\ \E level \in LevelArgs, desc \in Texts :
       IF level.isEntity /\ ~StrictEquals(level.creatorID, aUser.id)
       THEN ReturnsFalse("updateLevelDescription")
       ELSE SendsForBoolean("updateLevelDescription", "/updateGJDesc20.php",
                            credsEntries(aUser.creds)
                              \o <<Entry("levelID", level.id),
                                   Entry("levelDesc", Str(gdEncodeBase64(desc)))>>)
  /\ aArg' = NoItem
  /\ OpFrame

AuthNext ==
  \/ Login
  \/ LoginTransportError
  \/ LoginResponse
  \/ InfoTransportError
  \/ InfoResponse
  \/ PostAccountComment
  \/ PostComment
  \/ DeleteAccountComment
  \/ DeleteComment
  \/ SendFriendRequest
  \/ SendMessage
  \/ AcceptFriendRequest
  \/ RejectFriendRequest
  \/ CancelFriendRequest
  \/ Unfriend
  \/ Block
  \/ Unblock
  \/ LikeLevel
  \/ LikeComment
  \/ LikeAccountComment
  \/ UpdateLevelDescription

----------------------------------------------------------------------------
(* Claims about the parsers *)

\* the map that holds one entry per complete key/value pair of the split
RECURSIVE CompletePairs(_, _, _)
CompletePairs(split, i, obj) ==
  IF i + 1 < Len(split)
  THEN CompletePairs(split, i + 2, SetKey(obj, split[i + 1], Str(split[i + 2])))
  ELSE obj

\* C5: parse pairs the tokens of the split input and, for an odd number of
\* tokens, its result holds only the complete pairs: no entry is keyed by
\* the final unpaired token.
C5_ParseDropsUnpairedToken ==
  pPc = "parse" => pOut = CompletePairs(Split(pIn, COLON), 0, EmptyObj)

\* the value the numeric parser is said to store for a token: the number
\* when coercion succeeds, the original string when it yields NaN
NumberOrString(tok) == IF ToNumber(Str(tok)).t = "NaN" THEN Str(tok) ELSE ToNumber(Str(tok))

\* the key of the complete pair at 0-based index i is not assigned again
LastAssignment(split, i) ==
  \A j \in 0..(Len(split) - 1) : (j % 2 = 0 /\ j > i) => split[j + 1] # split[i + 1]

\* C6: the numeric-keyed object parser stores each value of a complete pair
\* as a number whenever numeric coercion of the token succeeds (also for
\* "0") and as the original string only when coercion yields NaN.
C6_ParseObjectCoercesEveryNumericToken ==
  pPc \in {"parseObject", "parseObjectV1"} =>
    LET split == Split(pIn, COMMA) IN
    \A i \in 0..(Len(split) - 2) :
      (i % 2 = 0 /\ LastAssignment(split, i)) =>
        pOut[split[i + 1]] = NumberOrString(split[i + 2])
----------------------------------------------------------------------------
(* Claims about the login flow and the logged-in user *)

\* C1: when the login endpoint answers "-1", login fails with the
\* invalid-credentials error, creates no logged-in user and no session
\* token, and sends no further request: the user-info request is never
\* issued and the caller stays anonymous.
C1_SentinelFailsLogin ==
  aLoginResp = SENTINEL =>
    /\ aPc = "failed"
    /\ aErr = "TypeError"
    /\ aUser = NoUser
    /\ aCreds = NoCreds
    /\ Len(aLog) = 1
    /\ aLog[1].op = "login"
    /\ aSent = <<>>

C1_Witness == aLoginResp = SENTINEL /\ aPc = "failed" /\ Len(aLog) = 1

\* the login flow has ended
LoginSettled == aPc \in {"authenticated", "failed"}

\* the login endpoint answered "A,U", not the sentinel
LoginAnswered == \E a \in ServerAccountIDs, u \in ServerUserIDs : aLoginResp = LoginAnswer(a, u)

\* the session token is {accountID: A, gjp: encrypt(password, accountKey)}
\* for the answer "A,U", and the token is not empty
TokenOfAnswer(creds) ==
  /\ \E a \in ServerAccountIDs, u \in ServerUserIDs :
       aLoginResp = LoginAnswer(a, u) /\ creds.accountID = Num(a)
  /\ creds.gjp = replaceAll(replaceAll(btoa(cipher(aUserCreds.password, accountKey)),
                                       47, 95), 43, 45)
  /\ creds.gjp # <<>>

CarriesToken(req, creds) ==
  /\ \E i \in 1..Len(req.body) :
       req.body[i] = [k |-> "accountID", v |-> toString(creds.accountID)]
  /\ \E i \in 1..Len(req.body) :
       req.body[i] = [k |-> "gjp", v |-> creds.gjp]

\* C3: every request sent by a mutating operation of the logged-in user
\* carries an accountID field and a gjp field equal to the account ID and
\* the obfuscated password of the session token issued at login.
C3_RequestsCarrySessionToken ==
  aPc = "authenticated" =>
    \A i \in 1..Len(aSent) : CarriesToken(aSent[i], aCreds)

\* the request has no password field and no field that holds the password
NoRawPassword(req, password) ==
  \A i \in 1..Len(req.body) : req.body[i].k # "password" /\ req.body[i].v # password

\* C4: after a successful login no request of the logged-in user contains
\* the raw password: no `password` field, no field whose value is the plain
\* password; the obfuscated token is what is sent.
C4_NoRawPasswordAfterLogin ==
  aPc = "authenticated" =>
    /\ \A i \in 1..Len(aSent) :
         /\ NoRawPassword(aSent[i], aUserCreds.password)
         /\ \E j \in 1..Len(aSent[i].body) :
              aSent[i].body[j] = [k |-> "gjp", v |-> encrypt(aUserCreds.password, accountKey)]
    /\ \A i \in 2..Len(aLog) : NoRawPassword(aLog[i], aUserCreds.password)

C4_Witness ==
  /\ aPc = "authenticated"
  /\ aOps = MaxOps
  /\ aSent # <<>>
  /\ aSent[1].op = "updateLevelDescription"

----------------------------------------------------------------------------
(* Claims about the Base64 codecs, under SpecCodec *)

\* C11: for every string s with character codes in 0..255, decoding the
\* encoding of s gives s back, in the browser and under Node.
C11_Base64RoundTrip ==
  cPc = "decoded" => cErr = "none" /\ cOut = cStr

\* a string of full length with a code above 127, whose encoding holds a
\* replaced character, went through the round trip in the browser
C11_Witness ==
  /\ cPc = "decoded"
  /\ Len(cStr) = MaxStrLen
  /\ \E i \in 1..Len(cStr) : cStr[i] > 127
  /\ ~cIsNode
  /\ \E i \in 1..Len(cMid) : cMid[i] \in {45, 95}
  /\ cOut = cStr

\* C12: in every environment gdEncodeBase64(s) is the standard Base64 of
\* the bytes of s with '/' replaced by '_' and '+' by '-', and contains
\* neither '/' nor '+'.
C12_EncodeIsUrlSafeBase64 ==
  cPc \in {"encoded", "decoded"} /\ cErr = "none" =>
    /\ cMid = replaceAll(replaceAll(btoa(cStr), 47, 95), 43, 45)
    /\ \A i \in 1..Len(cMid) : cMid[i] \notin {47, 43}

----------------------------------------------------------------------------
(* Claims about cipher, encrypt and decrypt, under SpecCipher *)

\* C13: cipher XORs each character code with the key's code at the same
\* index modulo the key length, keeps the length, and applying it twice
\* with the same non-empty key gives the input back.
C13_CipherIsXorInvolution ==
  /\ cPc \in {"ciphered", "deciphered"} =>
       /\ Len(cMid) = Len(cStr)
       /\ \A i \in 1..Len(cStr) :
            cMid[i] = BitXor(cStr[i], cKey[((i - 1) % Len(cKey)) + 1])
  /\ cPc = "deciphered" => cOut = cStr

\* a string longer than its two-character key, holding a surrogate, was
\* ciphered twice
C13_Witness ==
  /\ cPc = "deciphered"
  /\ Len(cKey) = 2
  /\ cKey[1] # cKey[2]
  /\ Len(cStr) > Len(cKey)
  /\ \E i \in 1..Len(cStr) : cStr[i] = 55357
  /\ cMid # cStr
  /\ cOut = cStr

PrintableAscii(s) == \A i \in 1..Len(s) : s[i] >= 32 /\ s[i] <= 126

Latin1(s) == \A i \in 1..Len(s) : s[i] <= 255

----------------------------------------------------------------------------
(* Claims about the request checksum, under SpecChecksum *)

\* the field lists that differ from fields in exactly one field
OneFieldChanged(fields) ==
  {f \in FieldLists : Cardinality({i \in 1..Len(fields) : f[i] # fields[i]}) = 1}

\* the two keys, each repeated cyclically, agree on the first n positions
SameKeyStream(k1, k2, n) ==
  \A i \in 1..n : k1[((i - 1) % Len(k1)) + 1] = k2[((i - 1) % Len(k2)) + 1]

\* C15 as stated: the checksum is encrypt(sha1(fields + salt), key), and
\* changing one field, the salt or the key alone gives another checksum.
C15_ChecksumChangesWithAnyInput ==
  cPc = "checksummed" =>
    /\ cOut = encrypt(sha1(join(cFields) \o cSalt), cKey)
    /\ \A f \in OneFieldChanged(cFields) : chk(f, cSalt, cKey) # cOut
    /\ \A s \in Salts \ {cSalt} : chk(cFields, s, cKey) # cOut
    /\ \A k \in ChkKeys \ {cKey} : chk(cFields, cSalt, k) # cOut

\* C15 amended: changing one field or the salt alone gives another
\* checksum (the digests being distinct); changing the key gives another
\* checksum exactly when the two keys, repeated cyclically, differ within
\* the length of the digest.
C15_ChecksumChangesUnlessSameKeyStream ==
  cPc = "checksummed" =>
    /\ cOut = encrypt(sha1(join(cFields) \o cSalt), cKey)
    /\ \A f \in OneFieldChanged(cFields) : chk(f, cSalt, cKey) # cOut
    /\ \A s \in Salts \ {cSalt} : chk(cFields, s, cKey) # cOut
    /\ \A k \in ChkKeys \ {cKey} :
         (chk(cFields, cSalt, k) = cOut)
           <=> SameKeyStream(k, cKey, Len(sha1(join(cFields) \o cSalt)))

\* a checksum of two non-empty fields was computed with the comment salt
\* and the comment key
C15_Witness ==
  /\ cPc = "checksummed"
  /\ cSalt = commentSalt
  /\ cKey = commentKey
  /\ \A i \in 1..Len(cFields) : Len(cFields[i]) = MaxFieldLen
  /\ cFields[1] # cFields[2]
  /\ cOut # <<>>

----------------------------------------------------------------------------
(* Claims about GDRequestParams, under SpecParams *)

Constructed == gPc \notin {"idle", "none"}

DefaultOf(k) ==
  IF k = "gdw" THEN Num(0) ELSE IF k = "gameVersion" THEN Num(21) ELSE Num(35)

\* C16: after construction and after any later insertParams and authorize
\* calls the map holds gdw, gameVersion and binaryVersion; right after
\* construction each has the value of the initial map when the initial map
\* gives one, and its default 0, 21 or 35 otherwise.
C16_VersionFieldsAlwaysPresent ==
  /\ Constructed => \A k \in {"gdw", "gameVersion", "binaryVersion"} : HasKey(gData, k)
  /\ gPc = "constructed" =>
       \A k \in {"gdw", "gameVersion", "binaryVersion"} :
         GetKey(gData, k) = IF HasKey(gArg.map, k) THEN GetKey(gArg.map, k) ELSE DefaultOf(k)

\* an object built from a map that gives gdw another value than the
\* default, and untouched since
C16_Witness ==
  /\ gPc = "constructed"
  /\ HasKey(gArg.map, "gdw")
  /\ GetKey(gData, "gdw") = Num(1)
  /\ GetKey(gData, "gameVersion") = Num(21)

UniqueKeys(obj) == \A i, j \in 1..Len(obj) : i # j => obj[i].k # obj[j].k

AllKeys == ParamKeys \cup {"gameVersion", "binaryVersion", "secret"}

\* C17: insertParams(fields) gives every key of fields its new value,
\* leaves every other key as it was, returns the merged map, and keeps
\* the keys unique.
C17_InsertMergesAndOverwrites ==
  gPc = "inserted" =>
    /\ \A i \in 1..Len(gArg.map) : GetKey(gData, gArg.map[i].k) = gArg.map[i].v
    /\ \A k \in AllKeys :
         ~HasKey(gArg.map, k) =>
           /\ HasKey(gData, k) <=> HasKey(gBefore, k)
           /\ GetKey(gData, k) = GetKey(gBefore, k)
    /\ gRet = gData
    /\ UniqueKeys(gData)

\* the second of two inserts gave x another value than the first
C17_Witness ==
  /\ gPc = "inserted"
  /\ gOps = 2
  /\ HasKey(gArg.map, "x")
  /\ HasKey(gBefore, "x")
  /\ GetKey(gBefore, "x") # GetKey(gArg.map, "x")
  /\ GetKey(gData, "x") = GetKey(gArg.map, "x")

\* C18: authorize(type) sets secret to the constant of the endpoint class
\* (db when the type is omitted), replacing an earlier secret, and leaves
\* every other field unchanged.
C18_AuthorizeSetsOnlySecret ==
  gPc = "authorized" =>
    /\ GetKey(gData, "secret")
         = Str(SECRETS[IF gArg.type = "undefined" THEN "db" ELSE gArg.type])
    /\ \A k \in AllKeys \ {"secret"} :
         /\ HasKey(gData, k) <=> HasKey(gBefore, k)
         /\ GetKey(gData, k) = GetKey(gBefore, k)
    /\ UniqueKeys(gData)

\* a second authorize replaced the secret of another endpoint class
C18_Witness ==
  /\ gPc = "authorized"
  /\ HasKey(gBefore, "secret")
  /\ GetKey(gBefore, "secret") # GetKey(gData, "secret")
  /\ gArg.type = "moderator"

\* C19 as stated: resolve() emits one pair per field, each value in its
\* string form, in the order in which the keys were first inserted, and
\* leaves the map as it was.
C19_ResolveInInsertionOrder ==
  gPc = "resolved" =>
    /\ gRet = [i \in 1..Len(gData) |-> [k |-> gData[i].k, v |-> toString(gData[i].v)]]
    /\ gData = gBefore

\* the positions of the pairs of the names, and of the array indices
NamePairs(pairs) == SelectSeq(pairs, LAMBDA e : ~isArrayIndex(e.k))

IndexPairs(pairs) == SelectSeq(pairs, LAMBDA e : isArrayIndex(e.k))

\* C19 amended: resolve() emits one pair per field, each value in its
\* string form, and leaves the map as it was; the keys that are array
\* indices come first in ascending numeric order, the other keys follow in
\* the order in which they were first inserted.
C19_ResolveInOwnKeyOrder ==
  gPc = "resolved" =>
    /\ Len(gRet) = Len(gData)
    /\ UniqueKeys(gRet)
    /\ \A i \in 1..Len(gRet) :
         HasKey(gData, gRet[i].k) /\ gRet[i].v = toString(GetKey(gData, gRet[i].k))
    /\ NamePairs(gRet)
         = NamePairs([i \in 1..Len(gData) |-> [k |-> gData[i].k, v |-> toString(gData[i].v)]])
    /\ LET ip == IndexPairs(gRet)
       IN /\ gRet = ip \o NamePairs(gRet)
          /\ \A i, j \in 1..Len(ip) : i < j => indexValue(ip[i].k) < indexValue(ip[j].k)
    /\ gData = gBefore

\* resolve() after an insert that overwrote x and added an array index
C19_Witness ==
  /\ gPc = "resolved"
  /\ gOps = 2
  /\ \E i \in 1..Len(gRet) : isArrayIndex(gRet[i].k)
  /\ \E i \in 1..Len(gRet) : gRet[i].k = "x" /\ gRet[i].v = <<50>>
  /\ gRet[Len(gRet)].k # "x"

----------------------------------------------------------------------------
(* Claim about retries, under SpecAuth *)

FailureAnswers == {SENTINEL, NETWORK_ERROR}

\* C20: no request is sent a second time: login and authorize send their
\* request once each, a failure sentinel or a transport error ends the
\* login with an error after that single attempt, and an operation of the
\* user sends at most one request and then returns or throws.
C20_NoRequestResent ==
  /\ Len(aLog) <= 2
  /\ \A i, j \in 1..Len(aLog) : i # j => aLog[i].url # aLog[j].url
  /\ aLoginResp \in FailureAnswers =>
       aPc = "failed" /\ aErr # "none" /\ Len(aLog) = 1 /\ aUser = NoUser
  /\ aInfoResp \in FailureAnswers =>
       aPc = "failed" /\ aErr # "none" /\ Len(aLog) = 2 /\ aUser = NoUser
  /\ Len(aSent) <= 1
  /\ aRet.val \in {"false", "null", "throws"} => Len(aSent) <= 1

\* the user-info request failed in transport after a good login answer
C20_Witness ==
  /\ aPc = "failed"
  /\ aInfoResp = NETWORK_ERROR
  /\ aLoginResp \notin FailureAnswers
  /\ aErr = "NetworkError"
  /\ Len(aLog) = 2

----------------------------------------------------------------------------
----------------------------------------------------------------------------
(* a session opened by login, for the operations that need one            *)

\* the state UserCreator.login leaves after the answers loginData and
\* infoData: the credentials, the LoggedInUser and the two requests sent
SessionOf(udid, userCreds, loginData, infoData) ==
  /\ aPc = "authenticated"
  /\ aUdid = udid
  /\ aUserCreds = userCreds
  /\ aLoginResp = loginData
  /\ aInfoResp = infoData
  /\ aCreds = loginCreds(userCreds, loginData)
  /\ aUser = newLoggedInUser(infoData, loginCreds(userCreds, loginData))
  /\ aLog = <<request("login", "/accounts/loginGJAccount.php",
                      loginParams(userCreds, udid)),
              request("authorize", "/getGJUserInfo20.php",
                      infoParams(loginCreds(userCreds, loginData)))>>
  /\ aSent = <<>>
  /\ aErr = "none"
  /\ aRet = NoRet
  /\ aOps = 0
  /\ aArg = NoItem

\* the session of user 'u' with password 'p': account 1, user 7
SessionInit ==
  SessionOf(<<107, 51>>, [username |-> <<117>>, password |-> <<112>>],
            LoginAnswer(1, 7), <<49, 58, 117, 58, 50, 58, 55, 58, 49, 54, 58, 49>>)

----------------------------------------------------------------------------
(* entities/user, entities/level: the paged listings                       *)

HASH == 35
PIPE == 124

\* the page size of the servers: the 10 of Math.ceil(num / 10) and of
\* split.length < 10
PageSize == 10

\* the alternate failure sentinel '-2'
SENTINEL2 == <<45, 50>>

\* String.prototype.indexOf for one character: -1 when absent
indexOf(s, ch) ==
  IF \E i \in 1..Len(s) : s[i] = ch
  THEN (CHOOSE i \in 1..Len(s) : s[i] = ch /\ \A j \in 1..(i - 1) : s[j] # ch) - 1
  ELSE -1

\* s.slice(0, end) of a string or an array: a negative end counts from the end
slice(s, end) ==
  LET e == IF end < 0 THEN Len(s) + end ELSE end
  IN IF e <= 0 THEN <<>> ELSE IF e >= Len(s) THEN s ELSE SubSeq(s, 1, e)

\* Array.prototype.join(',') on numbers
RECURSIVE joinNumbers(_)
joinNumbers(ids) ==
  IF ids = <<>> THEN <<>>
  ELSE IF Len(ids) = 1 THEN natToString(ids[1])
  ELSE natToString(ids[1]) \o <<COMMA>> \o joinNumbers(Tail(ids))

\* the entries "a|b|c" of a page of n entries
RECURSIVE pageBody(_)
pageBody(n) ==
  IF n = 0 THEN <<>>
  ELSE IF n = 1 THEN <<97>>
  ELSE pageBody(n - 1) \o <<PIPE, 96 + n>>

\* answers of the listing endpoints: a sentinel, or the entries of a page,
\* '#', and the page information
ListResponses == {SENTINEL, SENTINEL2} \cup {pageBody(n) \o <<HASH, 57>> : n \in 0..PageSize}

\* answers of /getGJLevels21.php: a sentinel, or levels # users # songs
LevelResponses ==
  {SENTINEL, SENTINEL2} \cup {pageBody(n) \o <<HASH, 117, HASH, 115>> : n \in 0..PageSize}

PagedUserFns == {"getAccountComments", "searchUsers", "getFriendRequests", "getMessages"}
LevelFns == {"searchLevels", "byCreator"}

\* Math.ceil(num / 10)
numToGet(num) == (num + PageSize - 1) \div PageSize

\* let singleReturn = false; if (!num) { num = 1; singleReturn = true; }
\* const singleReturn = !num;        (getFriendRequests, getMessages: never)
singleReturn(fn, numArg) ==
  fn \in {"getAccountComments", "searchUsers"} \cup LevelFns /\ ~Truthy(numArg)

\* num after the defaults: num = 10 in the parameter list of getFriendRequests
\* and getMessages, num = 1 for a single return
numOf(fn, numArg) ==
  IF fn \in {"getFriendRequests", "getMessages"}
  THEN IF numArg = Undefined THEN 10 ELSE numArg.n
  ELSE IF ~Truthy(numArg) THEN 1 ELSE numArg.n

\* typeof query === 'number' ? query.toString() : query instanceof Array ?
\* query.join(',') : query
queryString(query) ==
  CASE query.t = "number" -> toString(query)
    [] query.t = "array" -> joinNumbers(query.s)
    [] OTHER -> query.s

\* getSearchParams(config) for a config that names the query and the order:
\* diff '-', len '-', no award, no flags
getSearchParams(query, orderBy) ==
  opParams(<<Entry("str", Str(queryString(query))), Entry("diff", Str(<<MINUS>>)),
             Entry("len", Str(<<MINUS>>)), Entry("type", orderBy)>>)

\* the field map of the listing request of the logged-in user for a page
listData(fn, arg, user, page) ==
  CASE fn = "getAccountComments" ->
         <<Entry("accountID", user.accountID), Entry("page", Num(page)),
           Entry("total", Num(0))>>
    [] fn = "searchUsers" ->
         <<Entry("str", arg.query), Entry("page", Num(page)), Entry("total", Num(0))>>
    [] OTHER ->
         userEntries(user) \o
         <<Entry("page", Num(page)),
           Entry("getSent", Num(IF arg.outgoing THEN 1 ELSE 0)),
           Entry("total", Num(0))>>

\* a search that never names the page (the request of every page is the same)
levelPageParamsNoPage(params, i) == params

\* params.insertParams({page: i}) on the params the loop keeps
levelPageParams(params, i) == insertParams(params, <<Entry("page", Num(i))>>)

\* the params of the request of a page: the user listings build them anew,
\* the level searches update the object built before the loop
pageParams(fn, arg, user, params, page) ==
  IF fn \in LevelFns THEN levelPageParams(params, page)
  ELSE opParams(listData(fn, arg, user, page))

\* byCreator: query: '' + id, orderBy: 5; search: the config given
searchConfigParams(fn, arg) ==
  IF fn = "byCreator" THEN getSearchParams(Str(toString(arg.query)), Num(5))
  ELSE IF fn = "searchLevels" THEN getSearchParams(arg.query, Num(0))
  ELSE <<>>

listUrl(fn) ==
  CASE fn = "getAccountComments" -> "/getGJAccountComments20.php"
    [] fn = "searchUsers" -> "/getGJUsers20.php"
    [] fn = "getFriendRequests" -> "/getGJFriendRequests20.php"
    [] fn = "getMessages" -> "/getGJMessages20.php"
    [] fn = "getFriendsLeaderboard" -> "/getGJScores20.php"
    [] OTHER -> "/getGJLevels21.php"

\* data === '-1', or ['-1', '-2'].includes(data)
isFailure(fn, data) ==
  IF fn \in {"getFriendRequests", "getMessages"} THEN data \in {SENTINEL, SENTINEL2}
  ELSE data = SENTINEL

\* const [levelString, userString, songString] = data.split('#') followed by
\* userString.split and songString.split: a TypeError when a section is missing
levelDataThrows(data) == Len(Split(data, HASH)) < 3

\* data.slice(0, data.indexOf('#')).split('|'), or levelString.split('|')
entriesOf(fn, data) ==
  IF fn \in LevelFns THEN Split(Split(data, HASH)[1], PIPE)
  ELSE Split(slice(data, indexOf(data, HASH)), PIPE)

\* a loop without the break on a short page
lastPageNever(fn, split) == FALSE

\* if (split.length < 10) break;    (the level searches have no such break)
lastPage(fn, split) == fn \notin LevelFns /\ Len(split) < PageSize

NoListRet == [kind |-> "none", val |-> <<>>]

\* the return on a failure sentinel
failReturn(fn, single, acc) ==
  IF single THEN [kind |-> "null", val |-> <<>>]
  ELSE IF fn = "getAccountComments" THEN [kind |-> "array", val |-> <<>>]
  ELSE [kind |-> "array", val |-> acc]

\* a return that hands out everything collected
finalReturnUnsliced(fn, single, acc, num) == [kind |-> "array", val |-> acc]

\* the return after the loop: comments[0] || null, levels[0], or slice(0, num)
finalReturn(fn, single, acc, num) ==
  IF single
  THEN IF acc = <<>>
       THEN [kind |-> IF fn \in LevelFns THEN "undefined" ELSE "null", val |-> <<>>]
       ELSE [kind |-> "single", val |-> <<acc[1]>>]
  ELSE [kind |-> "array", val |-> slice(acc, num)]

\* the num arguments: none, 0, and 1 .. MaxNum
NumArgs == {Undefined} \cup {Num(n) : n \in 0..MaxNum}

\* the queries of a level search: a name, a level ID, an array of level IDs
LevelQueries == {Str(<<97>>), Num(5), [t |-> "array", n |-> 0, s |-> <<5, 6>>]}

NoListArg == [num |-> Undefined, query |-> Undefined, outgoing |-> FALSE]

ListIdle ==
  /\ lPc = "idle"
  /\ lFn = "none"
  /\ lArg = NoListArg
  /\ lPage = 0
  /\ lParams = <<>>
  /\ lSent = <<>>
  /\ lData = <<>>
  /\ lAcc = <<>>
  /\ lRet = NoListRet

EntIdle ==
  /\ eFr = NoItem
  /\ eLevel = NoItem

ListInit == SessionInit /\ ListIdle

ListFrame == UNCHANGED <<parseVars, flateVars, dcVars, authVars, codecVars, paramVars, entVars>>

\* a listing from its call to its first await: the locals, and the request
\* of page 0 unless the loop runs no iteration
StartListing(fn, arg) ==
  LET num == numOf(fn, arg.num)
      params == pageParams(fn, arg, aUser, searchConfigParams(fn, arg), 0)
  IN /\ lFn' = fn
     /\ lArg' = arg
     /\ lPage' = 0
     /\ lData' = <<>>
     /\ lAcc' = <<>>
     /\ IF numToGet(num) = 0
        THEN /\ lPc' = "done"
             /\ lParams' = <<>>
             /\ lSent' = <<>>
             /\ lRet' = finalReturn(fn, singleReturn(fn, arg.num), <<>>, num)
        ELSE /\ lPc' = "awaiting"
             /\ lParams' = params
             /\ lSent' = <<request(fn, listUrl(fn), params)>>
             /\ lRet' = NoListRet
     /\ ListFrame

\* User.getAccountComments(num?)
GetAccountComments ==
  /\ lPc = "idle"
  /\ \E num \in NumArgs :
       StartListing("getAccountComments", [NoListArg EXCEPT !.num = num])

\* UserCreator.search(str, num?)
SearchUsers ==
  /\ lPc = "idle"
  /\ \E num \in NumArgs :
       StartListing("searchUsers", [NoListArg EXCEPT !.num = num, !.query = Str(<<117>>)])

\* LoggedInUser.getFriendRequests(num = 10, outgoing = false)
GetFriendRequests ==
  /\ lPc = "idle"
  /\ \E num \in NumArgs, outgoing \in BOOLEAN :
       StartListing("getFriendRequests", [NoListArg EXCEPT !.num = num, !.outgoing = outgoing])

\* LoggedInUser.getMessages(num = 10, outgoing = false)
GetMessages ==
  /\ lPc = "idle"
  /\ \E num \in NumArgs, outgoing \in BOOLEAN :
       StartListing("getMessages", [NoListArg EXCEPT !.num = num, !.outgoing = outgoing])

\* LevelCreator.search(config, num?)
SearchLevels ==
  /\ lPc = "idle"
  /\ \E num \in NumArgs, query \in LevelQueries :
       StartListing("searchLevels", [NoListArg EXCEPT !.num = num, !.query = query])

\* LevelCreator.byCreator(creator, config, num?)
ByCreator ==
  /\ lPc = "idle"
  /\ \E num \in NumArgs :
       StartListing("byCreator", [NoListArg EXCEPT !.num = num, !.query = Num(7)])

\* a paged listing from the answer for a page to its next await or its
\* return: the failure check, the entries pushed, the break, the next request
ListResponse ==
  /\ lPc = "awaiting"
  /\ lFn \in PagedUserFns \cup LevelFns
  /\ \E data \in (IF lFn \in LevelFns THEN LevelResponses ELSE ListResponses) :
       LET single == singleReturn(lFn, lArg.num)
           num == numOf(lFn, lArg.num)
           split == entriesOf(lFn, data)
           params == pageParams(lFn, lArg, aUser, lParams, lPage + 1)
       IN /\ lData' = Append(lData, data)
          /\ IF isFailure(lFn, data)
             THEN /\ lPc' = "done"
                  /\ lRet' = failReturn(lFn, single, lAcc)
                  /\ UNCHANGED <<lAcc, lPage, lParams, lSent>>
             ELSE IF lFn \in LevelFns /\ levelDataThrows(data)
             THEN /\ lPc' = "done"
                  /\ lRet' = [kind |-> "throws", val |-> <<>>]
                  /\ UNCHANGED <<lAcc, lPage, lParams, lSent>>
             ELSE IF lastPage(lFn, split) \/ ~(lPage + 1 < numToGet(num))
             THEN /\ lPc' = "done"
                  /\ lAcc' = lAcc \o split
                  /\ lRet' = finalReturn(lFn, single, lAcc \o split, num)
                  /\ UNCHANGED <<lPage, lParams, lSent>>
             ELSE /\ lAcc' = lAcc \o split
                  /\ lPage' = lPage + 1
                  /\ lParams' = params
                  /\ lSent' = Append(lSent, request(lFn, listUrl(lFn), params))
                  /\ UNCHANGED <<lPc, lRet>>
  /\ UNCHANGED <<lFn, lArg>>
  /\ ListFrame

\* the stars a leaderboard entry may carry
BoardStars == 0..2

\* a leaderboard entry "1:<name>:3:<stars>"
boardEntry(i, stars) == <<49, COLON, 96 + i, COLON, 51, COLON>> \o natToString(stars)

RECURSIVE boardBody(_)
boardBody(st) ==
  IF Len(st) = 1 THEN boardEntry(1, st[1])
  ELSE boardBody(SubSeq(st, 1, Len(st) - 1)) \o <<PIPE>> \o boardEntry(Len(st), st[Len(st)])

\* answers of /getGJScores20.php: a sentinel, or the entries of the friends
\* and of the player (the last one), '#', and the page information
BoardResponses ==
  {SENTINEL, SENTINEL2} \cup
  {boardBody(st) \o <<HASH, 57>> : st \in UNION {[1..k -> BoardStars] : k \in 1..MaxBoard}}

\* new SearchedUser(creator, str).stats.stars: +d[3]
starsOf(str) == ToNumber(Field(parse(str, COLON), <<51>>))

\* a <= b on numbers: false when either is NaN
LessOrEqual(a, b) == a.t = "number" /\ b.t = "number" /\ a.n <= b.n

\* leaderboard.findIndex(val => val.stats.stars <= me.stats.stars), with
\* if (insertIndex === -1) insertIndex = leaderboard.length
insertIndex(leaderboard, me) ==
  IF \E i \in 1..Len(leaderboard) : LessOrEqual(starsOf(leaderboard[i]), starsOf(me))
  THEN (CHOOSE i \in 1..Len(leaderboard) :
          /\ LessOrEqual(starsOf(leaderboard[i]), starsOf(me))
          /\ \A j \in 1..(i - 1) : ~LessOrEqual(starsOf(leaderboard[j]), starsOf(me))) - 1
  ELSE Len(leaderboard)

\* a leaderboard that leaves the player where the server put it
friendsLeaderboardUnsorted(data) == Split(slice(data, indexOf(data, HASH)), PIPE)

\* const me = leaderboard.pop(); leaderboard.splice(insertIndex, 0, me)
friendsLeaderboard(data) ==
  LET all == Split(slice(data, indexOf(data, HASH)), PIPE)
      me == all[Len(all)]
      leaderboard == SubSeq(all, 1, Len(all) - 1)
      at == insertIndex(leaderboard, me)
  IN SubSeq(leaderboard, 1, at) \o <<me>> \o SubSeq(leaderboard, at + 1, Len(leaderboard))

\* LoggedInUser.getFriendsLeaderboard() up to its await
GetFriendsLeaderboard ==
  LET params == opParams(userEntries(aUser) \o
                         <<Entry("type", Str(<<102, 114, 105, 101, 110, 100, 115>>)),
                           Entry("page", Num(0)), Entry("total", Num(0))>>)
  IN /\ lPc = "idle"
     /\ lFn' = "getFriendsLeaderboard"
     /\ lPc' = "awaiting"
     /\ lParams' = params
     /\ lSent' = <<request("getFriendsLeaderboard", listUrl("getFriendsLeaderboard"), params)>>
     /\ UNCHANGED <<lArg, lPage, lData, lAcc, lRet>>
     /\ ListFrame

\* getFriendsLeaderboard after its await
LeaderboardResponse ==
  /\ lPc = "awaiting"
  /\ lFn = "getFriendsLeaderboard"
  /\ \E data \in BoardResponses :
       /\ lData' = <<data>>
       /\ lRet' = [kind |-> "array",
                   val |-> IF data = SENTINEL THEN <<>> ELSE friendsLeaderboard(data)]
  /\ lPc' = "done"
  /\ UNCHANGED <<lFn, lArg, lPage, lParams, lSent, lAcc>>
  /\ ListFrame

ListNext ==
  \/ GetAccountComments
  \/ SearchUsers
  \/ GetFriendRequests
  \/ GetMessages
  \/ SearchLevels
  \/ ByCreator
  \/ ListResponse
  \/ GetFriendsLeaderboard
  \/ LeaderboardResponse

----------------------------------------------------------------------------
(* claims about the paged listings                                         *)

\* the number of entries of a page: one more than the '|' before its '#'
EntryCount(data) ==
  Cardinality({j \in 1..Len(data) :
                 data[j] = PIPE /\ \A i \in 1..j : data[i] # HASH}) + 1

\* the number of entities a listing returned
Returned(ret) == IF ret.kind \in {"array", "single"} THEN Len(ret.val) ELSE 0

CeilTenth(num) == IF num % 10 = 0 THEN num \div 10 ELSE num \div 10 + 1

C23_ArrayQueryReturnsArray ==
  ( /\ lFn = "searchLevels"
    /\ lArg.query.t = "array"
    /\ lArg.num = Undefined
    /\ lPc = "done"
    /\ \A i \in 1..Len(lData) : lData[i] \notin {SENTINEL, SENTINEL2} )
  => lRet.kind = "array"

\* body[k] of a resolved request body, <<>> when absent
BodyField(body, k) ==
  IF \E i \in 1..Len(body) : body[i].k = k
  THEN body[CHOOSE i \in 1..Len(body) : body[i].k = k].v
  ELSE <<>>

\* the fields of a body other than k
BodyWithout(body, k) == {body[i] : i \in {j \in 1..Len(body) : body[j].k # k}}

Without(seq, k) == SubSeq(seq, 1, k - 1) \o SubSeq(seq, k + 1, Len(seq))

\* the entries the server sent, in its order
ServerEntries(data) == Split(SubSeq(data, 1, indexOf(data, HASH)), PIPE)

\* C29: getFriendsLeaderboard returns the entries of the server with the
\* last one (the player) moved in front of the first entry whose stars are
\* at most its own, or left at the end when there is none; the other entries
\* keep their order.
C29_LeaderboardPlacesPlayer ==
  (lFn = "getFriendsLeaderboard" /\ lPc = "done" /\ lData[1] \notin {SENTINEL, SENTINEL2}) =>
    LET server == ServerEntries(lData[1])
        me == server[Len(server)]
        others == SubSeq(server, 1, Len(server) - 1)
        ret == lRet.val
    IN /\ Len(ret) = Len(server)
       /\ \E k \in 1..Len(ret) :
            /\ ret[k] = me
            /\ Without(ret, k) = others
            /\ \A j \in 1..(k - 1) : starsOf(others[j]).n > starsOf(me).n
            /\ k <= Len(others) => starsOf(others[k]).n <= starsOf(me).n

\* the player, sent last, was moved between two friends
C29_Witness ==
  /\ lFn = "getFriendsLeaderboard"
  /\ lPc = "done"
  /\ lData[1] \notin {SENTINEL, SENTINEL2}
  /\ Len(lRet.val) = 4
  /\ lRet.val[2] = ServerEntries(lData[1])[4]
  /\ starsOf(lRet.val[1]).n = 2 /\ starsOf(lRet.val[2]).n = 1 /\ starsOf(lRet.val[3]).n = 0

----------------------------------------------------------------------------
(* entities: friend requests, messages and levels handed to the session    *)

\* an IncomingFriendRequest: its ID, the accounts it is from and to, and
\* whether it has been read
IncomingFriendRequests ==
  [id : ItemIDs, from : AccountIDs, to : AccountIDs, read : BOOLEAN]

\* a SearchedMessage entity or a bare message ID with the outgoing flag
Messages ==
  [isEntity : BOOLEAN, id : ItemIDs, from : AccountIDs, to : AccountIDs, outgoing : BOOLEAN]

Descriptions == {<<100>>, <<101>>}

\* a SearchedLevel: creator {id: +d[6]} with accountID: +user[2] when the
\* answer names the creator's account (0 for an unregistered creator)
SearchedLevels ==
  [id : ItemIDs,
   creator : [id : {Num(7), Num(9)}, accountID : {Undefined, Num(0), Num(12)}],
   description : {<<100>>},
   loggedIn : {FALSE}]

\* new LoggedInSearchedLevel(_creator, creator, ...): this.creator = creator
LoggedInSearchedLevel(user) ==
  [id |-> Num(5), creator |-> [id |-> user.id, accountID |-> user.accountID],
   description |-> <<100>>, loggedIn |-> TRUE]

\* the sessions of the entity operations: account 1, with the user-info
\* answers that name account 1, account 12 or no account
EntInit ==
  /\ \E infoData \in InfoResponses \ {SENTINEL} :
       SessionOf(<<107, 51>>, [username |-> <<117>>, password |-> <<112>>],
                 LoginAnswer(1, 7), infoData)
  /\ eFr \in IncomingFriendRequests
  /\ eLevel \in SearchedLevels \cup {LoggedInSearchedLevel(aUser)}

\* the part of the state an operation on an entity leaves alone
EntFrame ==
  /\ aOps' = aOps + 1
  /\ UNCHANGED <<aPc, aUdid, aUserCreds, aLoginResp, aInfoResp, aCreds, aUser, aLog,
                 aErr, parseVars, codecVars, paramVars, flateVars, dcVars, listVars>>

\* LoggedInUser.deleteMessage(messageID, outgoing?)
DeleteMessage ==
  /\ LoggedIn
  /\ \E msg \in Messages :
       /\ aArg' = msg
       /\ IF msg.isEntity /\
             ~StrictEquals(IF msg.outgoing THEN msg.from ELSE msg.to, aUser.accountID)
          THEN ReturnsFalse("deleteMessage")
          ELSE SendsForBoolean("deleteMessage", "/deleteGJMessages20.php",
                               userEntries(aUser)
                                 \o <<Entry("messageID", msg.id),
                                      Entry("isSender", Num(IF msg.outgoing THEN 1 ELSE 0))>>)
  /\ EntFrame
  /\ UNCHANGED entVars

\* LoggedInUser.markFriendRequestAsRead(fr): return (fr.read = (await req) === '1');
\* the assignment is not reached when the await throws
MarkFriendRequestAsRead ==
  /\ LoggedIn
  /\ aArg' = eFr
  /\ IF ~StrictEquals(eFr.to, aUser.accountID)
     THEN /\ ReturnsFalse("markFriendRequestAsRead")
          /\ UNCHANGED eFr
     ELSE /\ aSent' = <<request("markFriendRequestAsRead", "/readGJFriendRequest20.php",
                                opParams(userEntries(aUser)
                                           \o <<Entry("requestID", eFr.id)>>))>>
          /\ \E resp \in OpResponses \cup {NETWORK_ERROR} :
               /\ aRet' = [op |-> "markFriendRequestAsRead",
                           val |-> IF resp = NETWORK_ERROR THEN "throws"
                                   ELSE IF resp = ONE THEN "true" ELSE "false"]
               /\ eFr' = IF resp = NETWORK_ERROR THEN eFr
                         ELSE [eFr EXCEPT !.read = (resp = ONE)]
  /\ EntFrame
  /\ UNCHANGED eLevel

\* IncomingFriendRequest.markAsRead(), on a request of this session's user:
\* return this.read || (await this.to.markFriendRequestAsRead(this))
MarkAsRead ==
  /\ LoggedIn
  /\ StrictEquals(eFr.to, aUser.accountID)
  /\ aArg' = eFr
  /\ IF eFr.read
     THEN /\ aRet' = [op |-> "markAsRead", val |-> "true"]
          /\ aSent' = <<>>
          /\ UNCHANGED eFr
     ELSE /\ aSent' = <<request("markFriendRequestAsRead", "/readGJFriendRequest20.php",
                                opParams(userEntries(aUser)
                                           \o <<Entry("requestID", eFr.id)>>))>>
          /\ \E resp \in OpResponses \cup {NETWORK_ERROR} :
               /\ aRet' = [op |-> "markAsRead",
                           val |-> IF resp = NETWORK_ERROR THEN "throws"
                                   ELSE IF resp = ONE THEN "true" ELSE "false"]
               /\ eFr' = IF resp = NETWORK_ERROR THEN eFr
                         ELSE [eFr EXCEPT !.read = (resp = ONE)]
  /\ EntFrame
  /\ UNCHANGED eLevel

\* an update that stores the description whatever the server answered
updateDescriptionAlways(level, desc, success) == [level EXCEPT !.description = desc]

\* if (success) { this.description = desc; }
updateDescription(level, desc, success) ==
  IF success THEN [level EXCEPT !.description = desc] ELSE level

\* LoggedInSearchedLevel.updateDescription(desc):
\* const success = await this.creator.updateLevelDescription(this, desc)
UpdateDescription ==
  /\ LoggedIn
  /\ eLevel.loggedIn
  /\ \E desc \in Descriptions :
       /\ aArg' = [level |-> eLevel, desc |-> desc]
       /\ IF ~StrictEquals(eLevel.creator.id, aUser.id)
          THEN /\ aRet' = [op |-> "updateDescription", val |-> "false", answer |-> <<>>]
               /\ aSent' = <<>>
               /\ eLevel' = updateDescription(eLevel, desc, FALSE)
          ELSE /\ aSent' = <<request("updateLevelDescription", "/updateGJDesc20.php",
                                     opParams(credsEntries(aUser.creds)
                                                \o <<Entry("levelID", eLevel.id),
                                                     Entry("levelDesc",
                                                           Str(gdEncodeBase64(desc)))>>))>>
               /\ \E resp \in OpResponses \cup {NETWORK_ERROR} :
                    /\ aRet' = [op |-> "updateDescription",
                                val |-> IF resp = NETWORK_ERROR THEN "throws"
                                        ELSE IF resp = ONE THEN "true" ELSE "false",
                                answer |-> resp]
                    /\ eLevel' = IF resp = NETWORK_ERROR THEN eLevel
                                 ELSE updateDescription(eLevel, desc, resp = ONE)
  /\ EntFrame
  /\ UNCHANGED eFr

\* this._creator._client.users.getByAccountID(this.creator.id)
getCreatorTarget(level) == level.creator.id

\* SearchedLevel.getCreator(): this.creator.accountID ? await
\* users.getByAccountID(this.creator.id) : null, with UserCreator.getByAccountID;
\* LoggedInSearchedLevel.getCreator(): return this.creator
GetCreator ==
  /\ LoggedIn
  /\ aArg' = eLevel
  /\ IF eLevel.loggedIn
     THEN /\ aRet' = [op |-> "getCreator", val |-> "user"]
          /\ aSent' = <<>>
     ELSE IF Truthy(eLevel.creator.accountID)
     THEN /\ aSent' = <<request("getByAccountID", "/getGJUserInfo20.php",
                                opParams(<<Entry("targetAccountID",
                                                 getCreatorTarget(eLevel))>>))>>
          /\ \E data \in InfoResponses \cup {NETWORK_ERROR} :
               aRet' = [op |-> "getCreator",
                        val |-> IF data = NETWORK_ERROR THEN "throws"
                                ELSE IF data = SENTINEL THEN "null" ELSE "user"]
     ELSE /\ aRet' = [op |-> "getCreator", val |-> "null"]
          /\ aSent' = <<>>
  /\ EntFrame
  /\ UNCHANGED entVars

EntNext ==
  \/ DeleteAccountComment
  \/ DeleteComment
  \/ DeleteMessage
  \/ MarkFriendRequestAsRead
  \/ MarkAsRead
  \/ AcceptFriendRequest
  \/ RejectFriendRequest
  \/ CancelFriendRequest
  \/ UpdateDescription
  \/ GetCreator

----------------------------------------------------------------------------
(* claims about the operations on entities                                 *)

\* C24: SearchedLevel.getCreator fetches the user by the account ID of the
\* level's creator when the creator is registered, and returns null without
\* a request when the creator is unregistered.
C24_CreatorFetchedByAccountID ==
  (aRet.op = "getCreator" /\ ~aArg.loggedIn) =>
    IF Truthy(aArg.creator.accountID)
    THEN /\ Len(aSent) = 1
         /\ BodyField(aSent[1].body, "targetAccountID") = toString(aArg.creator.accountID)
    ELSE aSent = <<>> /\ aRet.val = "null"

\* the account the last ownership-checked operation compares with the user's
OwnerOf(op, arg) ==
  CASE op \in {"deleteAccountComment", "deleteComment"} -> arg.owner
    [] op = "deleteMessage" -> IF arg.outgoing THEN arg.from ELSE arg.to
    [] op \in {"markFriendRequestAsRead", "acceptFriendRequest", "rejectFriendRequest"} -> arg.to
    [] op = "cancelFriendRequest" -> arg.from

\* the friend-request operations take entities only
HandedEntity(op, arg) ==
  IF op \in {"deleteAccountComment", "deleteComment", "deleteMessage"} THEN arg.isEntity
  ELSE TRUE

OwnershipChecked ==
  {"deleteAccountComment", "deleteComment", "deleteMessage", "markFriendRequestAsRead",
   "acceptFriendRequest", "rejectFriendRequest", "cancelFriendRequest"}

\* C25: an operation handed an entity that belongs to another account
\* returns false and sends no request.
C25_ForeignEntityRefused ==
  ( /\ aRet.op \in OwnershipChecked
    /\ HandedEntity(aRet.op, aArg)
    /\ OwnerOf(aRet.op, aArg) # aUser.accountID )
  => (aRet.val = "false" /\ aSent = <<>>)

\* an outgoing message sent by another account was handed to deleteMessage
\* of the user of account 1, as the second operation of the session
C25_Witness ==
  /\ aRet.op = "deleteMessage"
  /\ aArg.isEntity
  /\ aArg.outgoing
  /\ aArg.from # aUser.accountID
  /\ aUser.accountID = Num(1)
  /\ aRet.val = "false"
  /\ aOps = 2

\* C26: the read flag of an incoming friend request never goes back from
\* read to unread under markAsRead / markFriendRequestAsRead, whatever the
\* server answers, and markAsRead on a read request returns true without a
\* request.
C26_ReadIsMonotonic ==
  [][ /\ eFr.read => eFr'.read
      /\ (aOps' # aOps /\ aRet'.op = "markAsRead" /\ eFr.read)
           => (aRet'.val = "true" /\ aSent' = <<>>) ]_vars

\* C28: updateDescription(desc) sets the local description to desc exactly
\* when the server answers '1'; when the server answers anything else, or
\* the level belongs to another user, the description is unchanged and
\* false is returned; a request that fails in transport changes nothing.
C28_DescriptionFollowsServer ==
  [][ (aOps' # aOps /\ aRet'.op = "updateDescription") =>
        IF aSent' # <<>> /\ aRet'.answer = ONE
        THEN eLevel'.description = aArg'.desc /\ aRet'.val = "true"
        ELSE /\ eLevel'.description = eLevel.description
             /\ (aSent' = <<>> \/ aRet'.answer # NETWORK_ERROR) => aRet'.val = "false" ]_vars

\* the server confirmed a new description, then refused another one
C28_Witness ==
  /\ aRet.op = "updateDescription"
  /\ aOps = 2
  /\ aRet.answer = SENTINEL
  /\ aRet.val = "false"
  /\ eLevel.description = <<101>>
  /\ aArg.desc = <<100>>
  /\ aArg.level.description = <<101>>

(* Specifications *)

InitParse == ParseInit /\ FlateIdle /\ DcIdle /\ AuthIdle /\ CodecIdle /\ ParamIdle /\ ListIdle /\ EntIdle

SpecParse == InitParse /\ [][ParseNext]_vars

InitFlate == FlateInit /\ ParseIdle /\ DcIdle /\ AuthIdle /\ CodecIdle /\ ParamIdle /\ ListIdle /\ EntIdle

SpecFlate == InitFlate /\ [][FlateNext]_vars

InitDecompress == DcInit /\ ParseIdle /\ FlateIdle /\ AuthIdle /\ CodecIdle /\ ParamIdle /\ ListIdle /\ EntIdle

SpecDecompress == InitDecompress /\ [][DcNext]_vars

InitAuth == AuthInit /\ ParseIdle /\ FlateIdle /\ DcIdle /\ CodecIdle /\ ParamIdle /\ ListIdle /\ EntIdle

SpecAuth == InitAuth /\ [][AuthNext]_vars

InitCodec == CodecInit /\ ParseIdle /\ FlateIdle /\ DcIdle /\ AuthIdle /\ ParamIdle /\ ListIdle /\ EntIdle

SpecCodec == InitCodec /\ [][CodecNext]_vars

InitCipher == CipherInit /\ ParseIdle /\ FlateIdle /\ DcIdle /\ AuthIdle /\ ParamIdle /\ ListIdle /\ EntIdle

SpecCipher == InitCipher /\ [][CipherNext]_vars

InitChecksum == ChecksumInit /\ ParseIdle /\ FlateIdle /\ DcIdle /\ AuthIdle /\ ParamIdle /\ ListIdle /\ EntIdle

SpecChecksum == InitChecksum /\ [][ChecksumNext]_vars

InitParams == ParamInit /\ ParseIdle /\ FlateIdle /\ DcIdle /\ AuthIdle /\ CodecIdle /\ ListIdle /\ EntIdle

SpecParams == InitParams /\ [][ParamNext]_vars

InitListing == ListInit /\ ParseIdle /\ FlateIdle /\ DcIdle /\ CodecIdle /\ ParamIdle /\ EntIdle

SpecListing == InitListing /\ [][ListNext]_vars

InitEntity == EntInit /\ ParseIdle /\ FlateIdle /\ DcIdle /\ CodecIdle /\ ParamIdle /\ ListIdle

SpecEntity == InitEntity /\ [][EntNext]_vars

====
